---- MODULE Spec2Model ----
(***************************************************************************)
(* Model of the cover-agent validation loop (UnitTestValidator) and of the *)
(* agent loop that drives it (CoverAgent.run_test_gen).                    *)
(*                                                                         *)
(* Text is modelled as a sequence of one-character strings, so that the    *)
(* strip / split / join / slice arithmetic of validate_test is computed    *)
(* the way Python computes it.  Coverage fractions are exact rationals     *)
(* <<numerator, denominator>> compared by cross multiplication.            *)
(***************************************************************************)
EXTENDS Integers, Sequences, FiniteSets, TLC

\* ------------------------------------------------------------------------
\* Bounds of the model
\* ------------------------------------------------------------------------
\* validate_test calls made on one validator object
MaxCalls == 2
\* largest value of num_attempts (args.run_tests_multiple_times)
MaxAttempts == 2
\* largest value of args.max_iterations
MaxIterations == 2
\* largest number of candidates in one generated batch
MaxBatch == 2
\* threads that construct MutationTester objects
MaxThreads == 2
\* MutationTester objects constructed in one process
MaxTesters == 3
\* generate_prompt calls made in one process
MaxPrompts == 1
\* denominator of the coverage fractions the coverage processor reports
CovDen == 2

\* ------------------------------------------------------------------------
\* Python values
\* ------------------------------------------------------------------------
\* None where the code expects an integer (an insertion line, the header
\* indentation, an exit code); the integers of the model are all >= 0
None == -1

NL == "\n"
SP == " "
QT == "\""

Min(a, b) == IF a <= b THEN a ELSE b
Max(a, b) == IF a >= b THEN a ELSE b

\* str.isspace for the characters of the model
IsSpace(c) == c \in {SP, NL}

\* str.lstrip()
RECURSIVE lstrip(_)
lstrip(s) == IF s # <<>> /\ IsSpace(Head(s)) THEN lstrip(Tail(s)) ELSE s

\* str.rstrip()
RECURSIVE rstrip(_)
rstrip(s) ==
    IF s # <<>> /\ IsSpace(s[Len(s)]) THEN rstrip(SubSeq(s, 1, Len(s) - 1)) ELSE s

\* str.strip()
strip(s) == lstrip(rstrip(s))

\* str.strip(c) for a one-character argument c
RECURSIVE lstrip_char(_, _)
lstrip_char(s, c) == IF s # <<>> /\ Head(s) = c THEN lstrip_char(Tail(s), c) ELSE s

RECURSIVE rstrip_char(_, _)
rstrip_char(s, c) ==
    IF s # <<>> /\ s[Len(s)] = c THEN rstrip_char(SubSeq(s, 1, Len(s) - 1), c) ELSE s

strip_char(s, c) == lstrip_char(rstrip_char(s, c), c)

\* str.split("\n"): always at least one (possibly empty) piece
RECURSIVE split_acc(_, _, _)
split_acc(s, cur, acc) ==
    IF s = <<>> THEN Append(acc, cur)
    ELSE IF Head(s) = NL THEN split_acc(Tail(s), <<>>, Append(acc, cur))
    ELSE split_acc(Tail(s), Append(cur, Head(s)), acc)

split(s) == split_acc(s, <<>>, <<>>)

\* "\n".join(lines)
RECURSIVE join(_)
join(lines) ==
    IF lines = <<>> THEN <<>>
    ELSE IF Len(lines) = 1 THEN lines[1]
    ELSE lines[1] \o <<NL>> \o join(Tail(lines))

\* needle in hay (substring test; the empty string is in every string)
contains(hay, needle) ==
    \E i \in 0..(Len(hay) - Len(needle)) :
        SubSeq(hay, i + 1, i + Len(needle)) = needle

\* lst[:n] and lst[n:] with Python's clamping and negative indices
slice_index(lst, n) == IF n >= 0 THEN Min(n, Len(lst)) ELSE Max(Len(lst) + n, 0)
slice_to(lst, n) == SubSeq(lst, 1, slice_index(lst, n))
slice_from(lst, n) == SubSeq(lst, slice_index(lst, n) + 1, Len(lst))

\* n * " "
spaces(n) == [i \in 1..n |-> SP]

\* bool(x) for the values the insertion point and the indentation can hold
truthy(x) == x # None /\ x # 0

\* ------------------------------------------------------------------------
\* Coverage fractions: <<covered, total>>, total > 0
\* ------------------------------------------------------------------------
\* the attribute current_coverage before run_coverage has ever assigned it
NoCoverage == <<0, 0>>

frac_le(a, b) == a[1] * b[2] <= b[1] * a[2]
frac_lt(a, b) == a[1] * b[2] < b[1] * a[2]
frac_ge(a, b) == frac_le(b, a)
frac_gt(a, b) == frac_lt(b, a)

\* ------------------------------------------------------------------------
\* Inputs: candidates, test-command runs, coverage reports
\* ------------------------------------------------------------------------
\* generated_test: {"test_code": ..., "new_imports_code": ...}
candidate(test_code, new_imports_code) ==
    [test_code |-> test_code, new_imports_code |-> new_imports_code]

\* the candidates of the model: a plain test without imports; an indented
\* test with two quoted import lines; a test with trailing blank space and
\* an import the test file already holds; an empty test with a quoted empty
\* import
Candidates ==
    { candidate(<<"t">>, <<>>),
      candidate(<<SP, "t">>, <<QT, "i", NL, "j", QT>>),
      candidate(<<"u", NL, SP>>, <<"a">>),
      candidate(<<>>, <<QT, QT>>) }

\* the test file when the validator is constructed
InitialTestFile == <<"a", NL, "b", NL, "c">>

\* one execution of the test command: exit code 0, a non-zero exit code, or
\* Runner.run_command raising
RunOutcomes == {"zero", "nonzero", "raise"}

\* the loop of lines 482-490 from attempt i (counted from 0), when the i-th
\* execution of the command would end as answers[i]: the executions made
RECURSIVE run_loop_from(_, _, _)
run_loop_from(answers, n, i) ==
    IF i >= n THEN <<>>
    ELSE IF answers[i + 1] # "zero"
    THEN \* break, or the exception leaves the loop
         <<answers[i + 1]>>
    ELSE <<"zero">> \o run_loop_from(answers, n, i + 1)

\* variant: the loop has no break and the runner's exceptions are swallowed
run_loop_no_break(answers, n) == SubSeq(answers, 1, n)

\* for i in range(self.num_attempts): ... if exit_code != 0: break
run_loop(answers, n) == run_loop_from(answers, n, 0)

\* the executions the loop of lines 482-490 can make with n attempts
RunScripts(n) == {run_loop(answers, n) : answers \in [1..n -> RunOutcomes]}

AllZero(runs) == \A i \in 1..Len(runs) : runs[i] = "zero"

\* exit code of the last run (1 stands for any non-zero code)
exit_code_of(runs) ==
    IF runs # <<>> /\ runs[Len(runs)] = "nonzero" THEN 1 ELSE 0

\* file_coverage_dict of a report (use_report_coverage_feature_flag): per
\* file <<lines covered, lines missed>>.  An empty report, the source file
\* alone (not covered, covered), and the source file with a second file
key1(k, v) == [x \in {k} |-> v]
key2(k1, v1, k2, v2) == [x \in {k1, k2} |-> IF x = k1 THEN v1 ELSE v2]

FileCoverageDicts ==
    { <<>>,
      key1("src.py", <<0, 1>>),
      key1("src.py", <<1, 0>>),
      key2("src.py", <<0, 1>>, "lib.py", <<1, 0>>),
      key2("src.py", <<1, 0>>, "lib.py", <<1, 0>>) }

\* what CoverageProcessor.process_coverage_report yields for one test run:
\* a parsed report, or one of the errors it raises
OkReports(flag) ==
    IF flag
    THEN {[kind |-> "ok", percentage_covered |-> NoCoverage, files |-> d] :
              d \in FileCoverageDicts}
    ELSE {[kind |-> "ok", percentage_covered |-> <<k, CovDen>>, files |-> <<>>] :
              k \in 0..CovDen}

ErrorReports ==
    {[kind |-> e, percentage_covered |-> NoCoverage, files |-> <<>>] :
        e \in {"AssertionError", "ValueError"}}

Reports(flag) == OkReports(flag) \cup ErrorReports

NoReport == [kind |-> "none", percentage_covered |-> NoCoverage, files |-> <<>>]

\* outcome of the diagnostic collaborator (extract_error_message)
DiagOutcomes == {"summary", "raise"}

\* ------------------------------------------------------------------------
\* UnitTestValidator.post_process_coverage_report
\* ------------------------------------------------------------------------
RECURSIVE sum_counts(_, _, _)
sum_counts(d, keys, i) ==
    IF keys = {} THEN 0
    ELSE LET k == CHOOSE x \in keys : TRUE
         IN (IF i = 0 THEN d[k][1] + d[k][2] ELSE d[k][i])
            + sum_counts(d, keys \ {k}, i)

\* [raised, percentage_covered, coverage_percentages]; raised is "" when the
\* report was processed
post_process_coverage_report(flag, report) ==
    IF report.kind # "ok"
    THEN [raised |-> report.kind, percentage_covered |-> NoCoverage,
          coverage_percentages |-> <<>>]
    ELSE IF flag
    THEN LET d == report.files
             total_lines_covered == sum_counts(d, DOMAIN d, 1)
             total_lines == sum_counts(d, DOMAIN d, 0)
         IN [raised |-> "",
             percentage_covered |->
                 IF total_lines = 0 THEN <<0, 1>>    \* ZeroDivisionError
                 ELSE <<total_lines_covered, total_lines>>,
             coverage_percentages |->
                 [k \in DOMAIN d |-> <<d[k][1], d[k][1] + d[k][2]>>]]
    ELSE [raised |-> "", percentage_covered |-> report.percentage_covered,
          coverage_percentages |-> <<>>]

\* ------------------------------------------------------------------------
\* UnitTestValidator.validate_test: the pure steps
\* ------------------------------------------------------------------------
\* generated_test.get("test_code", "").rstrip()
clean_test_code(generated_test) == rstrip(generated_test.test_code)

\* generated_test.get("new_imports_code", "").strip(), quotes removed
clean_additional_imports(generated_test) ==
    LET a == strip(generated_test.new_imports_code)
        b == IF a # <<>> /\ a[1] = QT /\ a[Len(a)] = QT
             THEN strip_char(a, QT) ELSE a
    IN IF b # <<>> /\ b = <<QT, QT>> THEN <<>> ELSE b

\* the candidate re-indented and wrapped in newlines
indent_test_code(test_code, needed_indent) ==
    LET lines == split(test_code)
        initial_indent == Len(test_code) - Len(lstrip(test_code))
        delta_indent == needed_indent - initial_indent
        test_code_indented ==
            IF truthy(needed_indent) /\ delta_indent > 0
            THEN join([i \in 1..Len(lines) |-> spaces(delta_indent) \o lines[i]])
            ELSE test_code
    IN <<NL>> \o strip_char(test_code_indented, NL) \o <<NL>>

\* the guard of the insertion
insertion_enabled(test_code_indented, tests_after) ==
    test_code_indented # <<>> /\ truthy(tests_after)

\* variant: the test's lines are inserted before line tests_after
insert_test_lines_before(original_content_lines, test_code_lines, tests_after) ==
    slice_to(original_content_lines, tests_after - 1)
        \o test_code_lines
        \o slice_from(original_content_lines, tests_after - 1)

\* the line list with the test's lines inserted
insert_test_lines(original_content_lines, test_code_lines, tests_after) ==
    slice_to(original_content_lines, tests_after)
        \o test_code_lines
        \o slice_from(original_content_lines, tests_after)

\* variant: imports the content already holds are inserted again
imports_to_insert_again(processed_test, additional_imports, imports_after) ==
    IF truthy(imports_after) /\ additional_imports # <<>>
    THEN split(additional_imports)
    ELSE <<>>

\* the import lines that get inserted (empty when none are)
imports_to_insert(processed_test, additional_imports, imports_after) ==
    IF truthy(imports_after) /\ additional_imports # <<>>
       /\ ~contains(processed_test, additional_imports)
    THEN split(additional_imports)
    ELSE <<>>

insert_import_lines(processed_test_lines, additional_imports_lines, imports_after) ==
    IF additional_imports_lines = <<>> THEN processed_test_lines
    ELSE slice_to(processed_test_lines, imports_after)
            \o additional_imports_lines
            \o slice_from(processed_test_lines, imports_after)

\* the content written to the test file for a candidate
processed_test_of(original_content, generated_test, tests_after, imports_after, needed_indent) ==
    LET test_code_indented ==
            indent_test_code(clean_test_code(generated_test), needed_indent)
        with_test == insert_test_lines(split(original_content),
                                       split(test_code_indented), tests_after)
        additional_imports_lines ==
            imports_to_insert(join(with_test),
                              clean_additional_imports(generated_test),
                              imports_after)
    IN join(insert_import_lines(with_test, additional_imports_lines, imports_after))

\* the number of import lines the splice injected
injected_import_lines(original_content, generated_test, tests_after, imports_after, needed_indent) ==
    LET test_code_indented ==
            indent_test_code(clean_test_code(generated_test), needed_indent)
        with_test == insert_test_lines(split(original_content),
                                       split(test_code_indented), tests_after)
    IN Len(imports_to_insert(join(with_test),
                             clean_additional_imports(generated_test),
                             imports_after))

\* variant: the exit code is not tested
run_failed_never(exit_code) == FALSE

\* Step 3: the run step failed
run_failed(exit_code) == exit_code # 0

\* variant: the diagnostic collaborator's error is not turned into ""
extract_error_message_unguarded(diag) == "summary"

\* extract_error_message: the model's summary, "" when anything raised
extract_error_message(diag) == IF diag = "raise" THEN "" ELSE "summary"

\* the execution whose time_of_test_command the variable holds after the
\* loop of lines 482-490 (0: never assigned): the last one that returned
time_of_test_command(runs) ==
    IF runs # <<>> /\ runs[Len(runs)] = "raise" THEN Len(runs) - 1
    ELSE Len(runs)

\* variant: the rejection is inverted, a candidate that raises coverage is
\* rolled back and one that does not is kept
coverage_not_increased_inverted(new_percentage_covered, current_coverage_, mutation_cov_increased_) ==
    frac_gt(new_percentage_covered, current_coverage_)
        /\ mutation_cov_increased_ = FALSE

\* variant: equal coverage is not rejected
coverage_not_increased_strict(new_percentage_covered, current_coverage_, mutation_cov_increased_) ==
    frac_lt(new_percentage_covered, current_coverage_)
        /\ mutation_cov_increased_ = FALSE

\* the rejection test of the coverage check
coverage_not_increased(new_percentage_covered, current_coverage_, mutation_cov_increased_) ==
    frac_le(new_percentage_covered, current_coverage_)
        /\ mutation_cov_increased_ = FALSE

\* variant: the rollback writes the spliced content back
rollback_content_spliced(original_content, processed_test) == processed_test

\* the content a rollback writes to the test file
rollback_content(original_content, processed_test) == original_content

\* relevant_line_number_to_insert_tests_after after an accepted candidate
advance_tests_after(tests_after, additional_imports_lines_len) ==
    tests_after + additional_imports_lines_len

\* the flag set at the top of validate_test and never written again
mutation_cov_increased == FALSE

\* ------------------------------------------------------------------------
\* State
\* ------------------------------------------------------------------------
VARIABLES
    \* the content of the file at test_file_path
    test_file,
    \* UnitTestValidator fields
    relevant_line_number_to_insert_tests_after,
    relevant_line_number_to_insert_imports_after,
    test_headers_indentation,
    current_coverage,
    last_coverage_percentages,
    failed_test_runs,
    current_mutation_score,
    num_attempts,
    use_report_coverage_feature_flag,
    desired_coverage,
    desired_mutation_score,
    strict_mutation_score,
    \* when the latest operation on the validator was a validate_test call:
    \* what it returned, and what it was given (NoCall otherwise)
    result,
    call,
    \* number of validate_test calls made so far
    calls,
    \* the current_coverage each accepted candidate left, oldest first
    accepted_coverage,
    \* life cycle of the validator object: "constructed", "analysed"
    phase,
    \* CoverAgent.run_test_gen
    pc,
    max_iterations,
    strict_coverage,
    iteration_count,
    batch,
    exit_status,
    exit_calls,
    report_dumps,
    \* what the test command and the coverage processor answered to the
    \* get_coverage call of init()
    baseline,
    \* CoverAgent.__init__: what os.path.isfile / isdir answer, the argparse
    \* namespace, the position of the constructor, the calls it has made and
    \* the exception that left it ("" when none)
    fs,
    args,
    cpc,
    construct_log,
    construct_error,
    \* MutationTester: the class attribute count, each thread's position in
    \* the constructor with its local values, the objects constructed so far,
    \* and the latest generate_prompt call with the number of calls made
    count,
    threads,
    testers,
    prompt,
    prompt_calls,
    \* the attempt log: the outcomes insert_attempt has stored and whether
    \* its latest call raised
    test_db,
    \* the re-measurement of the latest iteration: whether get_coverage
    \* raised, how the analysis of the failed tests ended, and what the
    \* coverage processor answered
    remeasure,
    \* the splice of one candidate into one test file, taken on its own
    splice_in,
    splice_out,
    \* initial_test_suite_analysis taken on its own: the answers the model
    \* gives, whether the call is over, whether it raised, and how often
    \* each question was asked
    suite_analysis,
    \* the writes made to files so far: the path written and whether it was
    \* a copy (shutil.copy) or an overwrite of the whole file (open(.., "w"))
    writes

validator_vars ==
    <<test_file, relevant_line_number_to_insert_tests_after,
      relevant_line_number_to_insert_imports_after, test_headers_indentation,
      current_coverage, last_coverage_percentages, failed_test_runs,
      current_mutation_score, phase>>

config_vars ==
    <<num_attempts, use_report_coverage_feature_flag, desired_coverage,
      desired_mutation_score, strict_mutation_score, max_iterations,
      strict_coverage>>

call_vars == <<result, call, calls, accepted_coverage>>

agent_vars ==
    <<pc, iteration_count, batch, exit_status, exit_calls, report_dumps, baseline>>

construct_vars == <<fs, args, cpc, construct_log, construct_error>>

mutation_vars == <<count, threads, testers, prompt, prompt_calls>>

record_vars == <<test_db, remeasure, suite_analysis, writes>>

splice_vars == <<splice_in, splice_out>>

vars ==
    <<validator_vars, config_vars, call_vars, agent_vars, construct_vars,
      mutation_vars, record_vars, splice_vars>>

\* ------------------------------------------------------------------------
\* The outcome of validate_test
\* ------------------------------------------------------------------------
NA == <<"N", "/", "A">>

NoCandidate == [test_code |-> <<>>, new_imports_code |-> <<>>]

\* the dictionary validate_test returns
outcome(status, reason, exit_code, generated_test, processed_test_file) ==
    [status |-> status, reason |-> reason, exit_code |-> exit_code,
     test |-> generated_test, processed_test_file |-> processed_test_file]

\* validate_test fell off the end of its try block: the call returns None
NoneResult == outcome("None", "", None, NoCandidate, <<>>)

\* no call was made yet
NoCall == outcome("NoCall", "", None, NoCandidate, <<>>)

\* one log per executed test-command run
run_events(runs) == [i \in 1..Len(runs) |-> "run"]

\* validate_test(generated_test) on the validator state `self` with the test
\* file holding original_content; runs, report and diag are what the command
\* runner, the coverage processor and the diagnostic collaborator answer.
\* Yields the fields the call leaves behind, its return value and the order
\* of its effects.
validate_test(self, original_content, generated_test, runs, report, diag) ==
    LET tests_after == self.tests_after
        imports_after == self.imports_after
        needed_indent == self.indentation
        test_code_indented ==
            indent_test_code(clean_test_code(generated_test), needed_indent)
        processed_test ==
            processed_test_of(original_content, generated_test, tests_after,
                              imports_after, needed_indent)
        additional_imports_lines_len ==
            injected_import_lines(original_content, generated_test, tests_after,
                                  imports_after, needed_indent)
        exit_code == exit_code_of(runs)
        cov == post_process_coverage_report(self.flag, report)
        kept == [test_file |-> original_content,
                 tests_after |-> tests_after,
                 current_coverage |-> self.current_coverage,
                 last_coverage_percentages |-> self.last_coverage_percentages,
                 failed_test_runs |-> self.failed_test_runs,
                 result |-> NoneResult,
                 inserted |-> insertion_enabled(test_code_indented, tests_after),
                 processed_test |-> processed_test,
                 injected |-> additional_imports_lines_len,
                 log |-> <<>>]
        rolled_back == rollback_content(original_content, processed_test)
        failed_with(error_message) ==
            Append(self.failed_test_runs,
                   [code |-> generated_test, error_message |-> error_message])
    IN
    IF ~insertion_enabled(test_code_indented, tests_after)
    THEN \* the if of line 446 is skipped and the function ends: None
         kept
    ELSE IF runs # <<>> /\ runs[Len(runs)] = "raise"
    THEN \* Runner.run_command raised: handler of lines 727-742
         [kept EXCEPT
            !.test_file = processed_test,
            !.result = outcome("FAIL", "Error validating test", None,
                               generated_test, NA),
            !.log = <<"write_spliced">> \o run_events(runs)]
    ELSE IF run_failed(exit_code)
    THEN \* lines 494-533
         [kept EXCEPT
            !.test_file = rolled_back,
            !.failed_test_runs =
                failed_with(extract_error_message(diag)),
            !.result = outcome("FAIL", "Test failed", exit_code,
                               generated_test, processed_test),
            !.log = <<"write_spliced">> \o run_events(runs)
                        \o <<"rollback", "diagnostic", "append_failed">>]
    ELSE IF runs = <<>>
    THEN \* no run was made: time_of_test_command is unbound (NameError) in
         \* the try of line 617; its handler rolls back and then raises
         \* NameError itself on stderr, which the handler of line 727 catches
         [kept EXCEPT
            !.test_file = rolled_back,
            !.result = outcome("FAIL", "Error validating test", None,
                               generated_test, NA),
            !.log = <<"write_spliced", "rollback">>]
    ELSE IF cov.raised # "" \/ self.current_coverage = NoCoverage
    THEN \* the coverage processor raised, or current_coverage was never
         \* assigned (AttributeError): handler of lines 662-690
         [kept EXCEPT
            !.test_file = rolled_back,
            !.failed_test_runs = failed_with("Coverage verification error"),
            !.result = outcome("FAIL", "Runtime error", exit_code,
                               generated_test, processed_test),
            !.log = <<"write_spliced">> \o run_events(runs)
                        \o <<"coverage", "rollback", "append_failed">>]
    ELSE IF coverage_not_increased(cov.percentage_covered,
                                   self.current_coverage,
                                   mutation_cov_increased)
    THEN \* lines 622-661
         [kept EXCEPT
            !.test_file = rolled_back,
            !.failed_test_runs = failed_with("Code coverage did not increase"),
            !.result = outcome("FAIL", "Coverage did not increase", exit_code,
                               generated_test, processed_test),
            !.log = <<"write_spliced">> \o run_events(runs)
                        \o <<"coverage", "rollback", "append_failed">>]
    ELSE IF \E key \in DOMAIN cov.coverage_percentages :
                key \notin DOMAIN self.last_coverage_percentages
    THEN \* lines 694-699: the insertion line is advanced, then the loop
         \* over the new report raises KeyError: handler of lines 727-742
         [kept EXCEPT
            !.test_file = processed_test,
            !.tests_after =
                advance_tests_after(tests_after, additional_imports_lines_len),
            !.result = outcome("FAIL", "Error validating test", None,
                               generated_test, NA),
            !.log = <<"write_spliced">> \o run_events(runs)
                        \o <<"coverage", "advance">>]
    ELSE \* lines 694-726
         [kept EXCEPT
            !.test_file = processed_test,
            !.tests_after =
                advance_tests_after(tests_after, additional_imports_lines_len),
            !.current_coverage = cov.percentage_covered,
            !.last_coverage_percentages = cov.coverage_percentages,
            !.result = outcome("PASS", "", exit_code, generated_test,
                               processed_test),
            !.log = <<"write_spliced">> \o run_events(runs)
                        \o <<"coverage", "advance", "commit">>]

\* ------------------------------------------------------------------------
\* UnitTestValidator.initial_test_suite_analysis
\* ------------------------------------------------------------------------
\* attempts each question to the model may take
allowed_attempts == 3

\* answers of the model to the indentation question
IndentAnswers == {None, 2}

\* answers of the model to the insertion-line question
LineAnswers ==
    { [tests |-> None, imports |-> None],
      [tests |-> 0, imports |-> 1],
      [tests |-> 1, imports |-> None],
      [tests |-> 2, imports |-> 1] }

\* the answers a retry loop consumes: every answer but the last was refused,
\* and the last is accepted unless it is the last attempt allowed
RefusedScripts(Refused, k) == [1..k -> Refused]

AnswerScripts(Answers, Refused) ==
    UNION { { r \o <<a>> : r \in RefusedScripts(Refused, k),
                           a \in IF k + 1 < allowed_attempts
                                 THEN Answers \ Refused ELSE Answers } :
            k \in 0..(allowed_attempts - 1) }

IndentScripts == AnswerScripts(IndentAnswers, {None})

LineScripts ==
    AnswerScripts(LineAnswers, {a \in LineAnswers : ~truthy(a.tests)})

\* the loop of lines 236-253: the value held when the loop ends
RECURSIVE ask_indentation(_, _, _)
ask_indentation(responses, test_headers_indentation_, counter_attempts) ==
    IF test_headers_indentation_ = None /\ counter_attempts < allowed_attempts
    THEN ask_indentation(responses, responses[counter_attempts + 1],
                         counter_attempts + 1)
    ELSE [value |-> test_headers_indentation_, attempts |-> counter_attempts]

\* variant: the question is asked again only while the line is missing, an
\* answer of 0 ends the loop
RECURSIVE ask_insert_line_until_set(_, _, _)
ask_insert_line_until_set(responses, answer, counter_attempts) ==
    IF answer.tests = None /\ counter_attempts < allowed_attempts
    THEN ask_insert_line_until_set(responses, responses[counter_attempts + 1],
                                   counter_attempts + 1)
    ELSE [value |-> answer, attempts |-> counter_attempts]

\* the loop of lines 262-283
RECURSIVE ask_insert_line(_, _, _)
ask_insert_line(responses, answer, counter_attempts) ==
    IF ~truthy(answer.tests) /\ counter_attempts < allowed_attempts
    THEN ask_insert_line(responses, responses[counter_attempts + 1],
                         counter_attempts + 1)
    ELSE [value |-> answer, attempts |-> counter_attempts]

\* [raised, indentation, tests_after, imports_after, asked]
initial_test_suite_analysis(indent_responses, line_responses) ==
    LET ind == ask_indentation(indent_responses, None, 0)
        line == ask_insert_line(line_responses,
                                [tests |-> None, imports |-> None], 0)
    IN IF ind.value = None
       THEN [raised |-> TRUE, indentation |-> None, tests_after |-> None,
             imports_after |-> None, asked |-> <<ind.attempts, 0>>]
       ELSE IF ~truthy(line.value.tests)
       THEN [raised |-> TRUE, indentation |-> None, tests_after |-> None,
             imports_after |-> None, asked |-> <<ind.attempts, line.attempts>>]
       ELSE [raised |-> FALSE, indentation |-> ind.value,
             tests_after |-> line.value.tests,
             imports_after |-> line.value.imports,
             asked |-> <<ind.attempts, line.attempts>>]

\* ------------------------------------------------------------------------
\* UnitTestValidator.run_coverage
\* ------------------------------------------------------------------------
\* variant: the exit code of the test command is not asserted
run_coverage_unchecked(self, run, report) ==
    LET cov == post_process_coverage_report(self.flag, report)
        kept == [raised |-> FALSE,
                 current_coverage |-> self.current_coverage,
                 last_coverage_percentages |-> self.last_coverage_percentages]
    IN IF run = "raise" \/ cov.raised = "AssertionError"
       THEN [kept EXCEPT !.raised = TRUE]
       ELSE IF cov.raised = "ValueError"
       THEN kept
       ELSE [kept EXCEPT
               !.current_coverage = cov.percentage_covered,
               !.last_coverage_percentages = cov.coverage_percentages]

\* [raised, current_coverage, last_coverage_percentages]
run_coverage(self, run, report) ==
    LET cov == post_process_coverage_report(self.flag, report)
        kept == [raised |-> FALSE,
                 current_coverage |-> self.current_coverage,
                 last_coverage_percentages |-> self.last_coverage_percentages]
    IN IF run # "zero"
       THEN \* Runner raised, or the assert of line 318 failed
            [kept EXCEPT !.raised = TRUE]
       ELSE IF cov.raised = "AssertionError"
       THEN [kept EXCEPT !.raised = TRUE]
       ELSE IF cov.raised = "ValueError"
       THEN kept
       ELSE [kept EXCEPT
               !.current_coverage = cov.percentage_covered,
               !.last_coverage_percentages = cov.coverage_percentages]

\* ------------------------------------------------------------------------
\* CoverAgent.__init__
\* ------------------------------------------------------------------------
\* the paths of the arguments
SourceFilePath == <<"s", "r", "c", ".", "p", "y">>
TestFilePath == <<"t", ".", "p", "y">>
OutputFilePath == <<"o", ".", "p", "y">>
ProjectRoot == <<"p", "r", "o", "j">>
DefaultLogDbPath == <<"d", "e", "f", "a", "u", "l", "t", ".", "d", "b">>
LogDbPath == <<"r", "u", "n", "s", ".", "d", "b">>

\* one call the constructor makes, with its two arguments
called(name, a, b) == [call |-> name, a |-> a, b |-> b]

\* the argparse namespaces of the model: project_root empty or set;
\* test_file_output_path empty, another file, or the test file itself;
\* log_db_path empty or set
ArgsInputs ==
    [source_file_path : {SourceFilePath},
     test_file_path : {TestFilePath},
     project_root : {<<>>, ProjectRoot},
     test_file_output_path : {<<>>, OutputFilePath, TestFilePath},
     log_db_path : {<<>>, LogDbPath}]

\* what the file system answers: os.path.isfile(source_file_path),
\* os.path.isfile(test_file_path), os.path.isdir(project_root)
FsInputs == [source_file : BOOLEAN, test_file : BOOLEAN, project_root : BOOLEAN]

\* variant: the test file is checked before the source file
validate_paths_test_first(fs_, args_) ==
    IF ~fs_.test_file
    THEN [error |-> "FileNotFoundError: Test file", args |-> args_,
          log |-> <<called("isfile", args_.test_file_path, <<>>)>>]
    ELSE IF ~fs_.source_file
    THEN [error |-> "FileNotFoundError: Source file", args |-> args_,
          log |-> <<called("isfile", args_.test_file_path, <<>>),
                    called("isfile", args_.source_file_path, <<>>)>>]
    ELSE [error |-> "", args |-> args_,
          log |-> <<called("isfile", args_.test_file_path, <<>>),
                    called("isfile", args_.source_file_path, <<>>)>>]

\* _validate_paths: [error, args, log]
validate_paths(fs_, args_) ==
    LET checked_source == <<called("isfile", args_.source_file_path, <<>>)>>
        checked_test ==
            checked_source \o <<called("isfile", args_.test_file_path, <<>>)>>
        checked_root ==
            IF args_.project_root # <<>>
            THEN checked_test \o <<called("isdir", args_.project_root, <<>>)>>
            ELSE checked_test
        log_db_path == IF args_.log_db_path = <<>> THEN DefaultLogDbPath
                       ELSE args_.log_db_path
    IN IF ~fs_.source_file
       THEN [error |-> "FileNotFoundError: Source file", args |-> args_,
             log |-> checked_source]
       ELSE IF ~fs_.test_file
       THEN [error |-> "FileNotFoundError: Test file", args |-> args_,
             log |-> checked_test]
       ELSE IF args_.project_root # <<>> /\ ~fs_.project_root
       THEN [error |-> "FileNotFoundError: Project root", args |-> args_,
             log |-> checked_root]
       ELSE [error |-> "",
             args |-> [args_ EXCEPT !.log_db_path = log_db_path],
             log |-> checked_root \o <<called("UnitTestDB", log_db_path, <<>>)>>]

\* outcomes of shutil.copy(src, dst): SameFileError when both name the same
\* file, else done or an OSError (the destination cannot be written)
CopyOutcomes(src, dst) == IF src = dst THEN {"SameFileError"} ELSE {"", "OSError"}

\* variant: the copy is made from the output path to the test file
duplicate_test_file_reversed(args_, copy_error) ==
    IF args_.test_file_output_path # <<>>
    THEN [error |-> copy_error, args |-> args_,
          log |-> <<called("copy", args_.test_file_output_path,
                           args_.test_file_path)>>]
    ELSE [error |-> "",
          args |-> [args_ EXCEPT !.test_file_output_path = args_.test_file_path],
          log |-> <<>>]

\* _duplicate_test_file: [error, args, log]
duplicate_test_file(args_, copy_error) ==
    IF args_.test_file_output_path # <<>>
    THEN [error |-> copy_error, args |-> args_,
          log |-> <<called("copy", args_.test_file_path,
                           args_.test_file_output_path)>>]
    ELSE [error |-> "",
          args |-> [args_ EXCEPT !.test_file_output_path = args_.test_file_path],
          log |-> <<>>]

\* variant: the collaborators are given the test file itself
construct_collaborators_on_test_file(args_) ==
    <<called("UnitTestGenerator", args_.source_file_path, args_.test_file_path),
      called("UnitTestValidator", args_.source_file_path, args_.test_file_path),
      called("FailedTestAnalyzer", args_.source_file_path, args_.test_file_path)>>

\* the generator, the validator and the analyzer, each given
\* test_file_path = args.test_file_output_path
construct_collaborators(args_) ==
    <<called("UnitTestGenerator", args_.source_file_path,
             args_.test_file_output_path),
      called("UnitTestValidator", args_.source_file_path,
             args_.test_file_output_path),
      called("FailedTestAnalyzer", args_.source_file_path,
             args_.test_file_output_path)>>

\* CoverAgent.__init__: [error, args, log]
construct(fs_, args_, copy_error) ==
    LET v == validate_paths(fs_, args_)
        d == duplicate_test_file(v.args, copy_error)
    IN IF v.error # "" THEN v
       ELSE IF d.error # ""
       THEN [error |-> d.error, args |-> d.args, log |-> v.log \o d.log]
       ELSE [error |-> "", args |-> d.args,
             log |-> v.log \o d.log \o construct_collaborators(d.args)]

\* the files shutil.copy wrote: the destination of each copy of the log,
\* none when the copy refused to copy a file onto itself
copy_writes(log_, copy_error) ==
    IF copy_error = "SameFileError" THEN {}
    ELSE {[path |-> log_[i].b, kind |-> "copy"] :
             i \in {j \in DOMAIN log_ : log_[j].call = "copy"}}

\* the arguments and the file system before CoverAgent(args)
ConstructInit ==
    /\ fs \in FsInputs
    /\ args \in ArgsInputs
    /\ cpc = "new"
    /\ construct_log = <<>>
    /\ construct_error = ""

\* an agent that was constructed from arguments without an output path
ConstructedInit ==
    /\ fs = [source_file |-> TRUE, test_file |-> TRUE, project_root |-> TRUE]
    /\ \E r \in {construct(fs, [source_file_path |-> SourceFilePath,
                                 test_file_path |-> TestFilePath,
                                 project_root |-> <<>>,
                                 test_file_output_path |-> <<>>,
                                 log_db_path |-> <<>>], "")} :
          /\ args = r.args
          /\ construct_log = r.log
          /\ construct_error = r.error
    /\ cpc = "constructed"

\* CoverAgent(args)
CoverAgentConstruct ==
    /\ cpc = "new"
    /\ \E copy_error \in CopyOutcomes(args.test_file_path,
                                       args.test_file_output_path) :
         \E r \in {construct(fs, args, copy_error)} :
            /\ args' = r.args
            /\ construct_log' = r.log
            /\ construct_error' = r.error
            /\ cpc' = IF r.error = "" THEN "constructed" ELSE "raised"
            /\ writes' = writes \cup copy_writes(r.log, copy_error)
    /\ UNCHANGED fs
    /\ UNCHANGED <<validator_vars, config_vars, call_vars, agent_vars,
                   mutation_vars>>
    /\ UNCHANGED <<test_db, remeasure, suite_analysis, splice_vars>>

\* ------------------------------------------------------------------------
\* MutationTester: the report-name counter and the reading of the report
\* ------------------------------------------------------------------------

Threads == 1 .. MaxThreads

Digits == <<"0", "1", "2", "3", "4", "5", "6", "7", "8", "9">>

\* the decimal digits of a natural number, as an f-string prints it
RECURSIVE str(_)
str(n) ==
    IF n < 10 THEN <<Digits[n + 1]>>
    ELSE str(n \div 10) \o <<Digits[(n % 10) + 1]>>

\* the default of the constructor's report_yaml_file parameter
DefaultReportYamlFile ==
    <<"m", "u", "t", "_", "r", "e", "p", "o", "r", "t", ".", "y", "a", "m",
      "l">>

\* f'{MutationTester.get_count()}_mut' for the value get_count() returned
report_html_file_of(c) == str(c) \o <<"_", "m", "u", "t">>

\* f'{MutationTester.get_count()}_{report_yaml_file}'
report_yaml_file_of(c, report_yaml_file) ==
    str(c) \o <<"_">> \o report_yaml_file

\* a thread that is not inside MutationTester.__init__
IdleThread ==
    [pc |-> "idle", count_read |-> 0, report_yaml_file |-> <<>>,
     html |-> <<>>]

\* a report as yaml.safe_load returns it: the keys present and their values
EmptyReport ==
    [keys |-> {}, mutation_score |-> 0, covered_nodes |-> 0, all_nodes |-> 0,
     mutations |-> <<>>]

KilledReport ==
    [keys |-> {"coverage", "mutation_score", "mutations"},
     mutation_score |-> 100, covered_nodes |-> 5, all_nodes |-> 5,
     mutations |->
        <<[status |-> "killed",
           mutations |-> <<[lineno |-> 3, operator |-> "ROR"]>>]>>]

ScoreOnlyReport ==
    [keys |-> {"mutation_score"}, mutation_score |-> 40, covered_nodes |-> 0,
     all_nodes |-> 0, mutations |-> <<>>]

SurvivedReport ==
    [keys |-> {"coverage", "mutation_score", "mutations"},
     mutation_score |-> 50, covered_nodes |-> 4, all_nodes |-> 5,
     mutations |->
        <<[status |-> "killed",
           mutations |-> <<[lineno |-> 3, operator |-> "AOR"]>>],
          [status |-> "survived",
           mutations |-> <<[lineno |-> 3, operator |-> "ROR"],
                           [lineno |-> 7, operator |-> "XYZ"]>>]>>]

MutationReports == {EmptyReport, KilledReport, ScoreOnlyReport, SurvivedReport}

\* one attempt to read the report: open() finds no file, the YAML does not
\* parse, the file is empty (safe_load gives None and len(None) raises), or
\* a mapping is loaded
ReadErrors == {"FileNotFoundError", "YAMLError", "TypeError"}

ReadOutcomes ==
    {[error |-> e, data |-> EmptyReport] : e \in ReadErrors}
    \cup {[error |-> "", data |-> d] : d \in MutationReports}

retries == 2

\* what the attempts of one load_report call meet, in order
ReadScripts == [1 .. retries + 1 -> ReadOutcomes]

\* the loop of load_report from attempt number `attempt` (counted from 0):
\* [loaded, data, attempts]; loaded = FALSE stands for the return of None
RECURSIVE load_report_from(_, _)
load_report_from(reads, attempt) ==
    IF reads[attempt + 1].error = ""
    THEN [loaded |-> TRUE, data |-> reads[attempt + 1].data,
          attempts |-> attempt + 1]
    ELSE IF attempt < retries
    THEN load_report_from(reads, attempt + 1)
    ELSE [loaded |-> FALSE, data |-> EmptyReport, attempts |-> attempt + 1]

load_report(reads) == load_report_from(reads, 0)

\* dict.get(key, default)
get(d, key, value, default) == IF key \in d.keys THEN value ELSE default

\* one line of the prompt: its fixed text and the values formatted into it
prompt_line(text, a, b) == [text |-> text, a |-> a, b |-> b]

MUTATION_OPERATOR_MAP ==
    {"AOD", "AOR", "ASR", "BCR", "COD", "CRP", "DDL", "EHD", "EXS", "IHD",
     "IOD", "IOP", "LCR", "LOD", "ROR", "RSI", "SCR", "SIR", "SVD", "ZIL"}

get_operator_full_name(abbreviation) ==
    IF abbreviation \in MUTATION_OPERATOR_MAP THEN abbreviation
    ELSE "Unknown operator"

\* the sub-mutations of the items whose status is "survived", in order
RECURSIVE mutant_details(_)
mutant_details(mutation_list) ==
    IF mutation_list = <<>> THEN <<>>
    ELSE (IF Head(mutation_list).status = "survived"
          THEN Head(mutation_list).mutations ELSE <<>>)
         \o mutant_details(Tail(mutation_list))

\* the lines written for the surviving mutants from number i on
RECURSIVE mutant_lines(_, _)
mutant_lines(details, i) ==
    IF details = <<>> THEN <<>>
    ELSE <<prompt_line(get_operator_full_name(Head(details).operator), i,
                       Head(details).lineno)>>
         \o (IF Head(details).operator = "ROR"
             THEN <<prompt_line("This mutant changed a relational operator",
                                0, 0)>>
             ELSE IF Head(details).operator \in {"AOR", "AOD"}
             THEN <<prompt_line("This mutant modified arithmetic operations",
                                0, 0)>>
             ELSE IF Head(details).operator = "LCR"
             THEN <<prompt_line("This mutant changed logical connectors",
                                0, 0)>>
             ELSE <<>>)
         \o mutant_lines(Tail(details), i + 1)

TestingGoalLines ==
    <<prompt_line("### Testing Goal", 0, 0),
      prompt_line("Please generate or refine tests", 0, 0),
      prompt_line("1. Create a test", 0, 0),
      prompt_line("2. Ensure each test checks the specific behavior", 0, 0),
      prompt_line("3. Use descriptive test names", 0, 0),
      prompt_line("4. Include assertions", 0, 0)>>

\* the prompt lines of a loaded, non-empty report
prompt_lines(yaml_data) ==
    LET all_nodes == get(yaml_data, "coverage", yaml_data.all_nodes, 0)
        covered_nodes ==
            get(yaml_data, "coverage", yaml_data.covered_nodes, 0)
        mutation_score ==
            get(yaml_data, "mutation_score", yaml_data.mutation_score, 0)
        mutation_list == get(yaml_data, "mutations", yaml_data.mutations, <<>>)
        details == mutant_details(mutation_list)
    IN <<prompt_line("## Results of Mutation Testing", 0, 0),
         prompt_line("**Mutation Score**", mutation_score, 0),
         prompt_line("**Nodes Covered**", covered_nodes, all_nodes)>>
       \o (IF details # <<>>
           THEN <<prompt_line("### Understanding Mutation Testing", 0, 0),
                  prompt_line("Mutation testing creates small changes", 0, 0),
                  prompt_line("When a mutant 'survives'", 0, 0),
                  prompt_line("### Surviving Mutants", 0, 0)>>
                \o mutant_lines(details, 1)
           ELSE <<prompt_line("No surviving mutants! Great job.", 0, 0)>>)
       \o TestingGoalLines

\* generate_prompt treating an unreadable report as one without survivors
generate_prompt_none_as_no_mutants(reads) ==
    LET r == load_report(reads)
    IN IF ~r.loaded
       THEN [attempts |-> r.attempts, loaded |-> FALSE, raised |-> "",
             text |-> prompt_lines(ScoreOnlyReport)]
       ELSE IF r.data.keys = {}
       THEN [attempts |-> r.attempts, loaded |-> TRUE,
             raised |-> "ValueError", text |-> <<>>]
       ELSE [attempts |-> r.attempts, loaded |-> TRUE, raised |-> "",
             text |-> prompt_lines(r.data)]

\* generate_prompt: [attempts, loaded, raised, text]; text is the list of
\* lines of the returned string, <<>> for the empty string
generate_prompt(reads) ==
    LET r == load_report(reads)
    IN IF ~r.loaded
       THEN [attempts |-> r.attempts, loaded |-> FALSE, raised |-> "",
             text |-> <<>>]
       ELSE IF r.data.keys = {}
       THEN [attempts |-> r.attempts, loaded |-> TRUE,
             raised |-> "ValueError", text |-> <<>>]
       ELSE [attempts |-> r.attempts, loaded |-> TRUE, raised |-> "",
             text |-> prompt_lines(r.data)]

\* no generate_prompt call made yet
NoPrompt ==
    [report_yaml_file |-> <<>>, reads |-> <<>>, attempts |-> 0,
     loaded |-> FALSE, raised |-> "", text |-> <<>>]

\* the class attribute count = 0 and no object constructed
MutationInit ==
    /\ count = 0
    /\ threads = [t \in Threads |-> IdleThread]
    /\ testers = <<>>
    /\ prompt = NoPrompt
    /\ prompt_calls = 0

\* constructions begun: the objects constructed and those under construction
Begun == Len(testers) + Cardinality({t \in Threads : threads[t].pc # "idle"})

\* a thread calls MutationTester(report_yaml_file = ...)
MutationTesterBegin ==
    /\ Begun < MaxTesters
    /\ \E t \in Threads :
          /\ threads[t].pc = "idle"
          /\ threads' =
                [threads EXCEPT ![t].pc = "increment_load",
                                ![t].report_yaml_file = DefaultReportYamlFile]
    /\ UNCHANGED <<count, testers, prompt, prompt_calls>>
    /\ UNCHANGED <<validator_vars, config_vars, call_vars, agent_vars,
                   construct_vars>>
    /\ UNCHANGED <<record_vars, splice_vars>>

\* increment_count, first half of `MutationTester.count += 1`: read count
IncrementCountLoad ==
    /\ \E t \in Threads :
          /\ threads[t].pc = "increment_load"
          /\ threads' = [threads EXCEPT ![t].pc = "increment_store",
                                        ![t].count_read = count]
    /\ UNCHANGED <<count, testers, prompt, prompt_calls>>
    /\ UNCHANGED <<validator_vars, config_vars, call_vars, agent_vars,
                   construct_vars>>
    /\ UNCHANGED <<record_vars, splice_vars>>

\* increment_count, second half: store the value read plus one
IncrementCountStore ==
    /\ \E t \in Threads :
          /\ threads[t].pc = "increment_store"
          /\ count' = threads[t].count_read + 1
          /\ threads' = [threads EXCEPT ![t].pc = "report_html_file"]
    /\ UNCHANGED <<testers, prompt, prompt_calls>>
    /\ UNCHANGED <<validator_vars, config_vars, call_vars, agent_vars,
                   construct_vars>>
    /\ UNCHANGED <<record_vars, splice_vars>>

\* self.report_html_file = f'{MutationTester.get_count()}_mut'
SetReportHtmlFile ==
    /\ \E t \in Threads :
          /\ threads[t].pc = "report_html_file"
          /\ threads' = [threads EXCEPT ![t].pc = "report_yaml_file",
                                        ![t].html = report_html_file_of(count)]
    /\ UNCHANGED <<count, testers, prompt, prompt_calls>>
    /\ UNCHANGED <<validator_vars, config_vars, call_vars, agent_vars,
                   construct_vars>>
    /\ UNCHANGED <<record_vars, splice_vars>>

\* self.report_yaml_file = f'{MutationTester.get_count()}_{report_yaml_file}'
\* and the rest of the constructor, which touches the new object only
SetReportYamlFile ==
    /\ \E t \in Threads :
          /\ threads[t].pc = "report_yaml_file"
          /\ testers' =
                Append(testers,
                       [thread |-> t,
                        report_html_file |-> threads[t].html,
                        report_yaml_file |->
                            report_yaml_file_of(count,
                                                threads[t].report_yaml_file)])
          /\ threads' = [threads EXCEPT ![t] = IdleThread]
    /\ UNCHANGED <<count, prompt, prompt_calls>>
    /\ UNCHANGED <<validator_vars, config_vars, call_vars, agent_vars,
                   construct_vars>>
    /\ UNCHANGED <<record_vars, splice_vars>>

\* generate_prompt() on a constructed object
GeneratePrompt ==
    /\ prompt_calls < MaxPrompts
    /\ \E i \in 1 .. Len(testers) :
         \E reads \in ReadScripts :
            \E r \in {generate_prompt(reads)} :
               prompt' =
                  [report_yaml_file |-> testers[i].report_yaml_file,
                   reads |-> SubSeq(reads, 1, r.attempts),
                   attempts |-> r.attempts,
                   loaded |-> r.loaded,
                   raised |-> r.raised,
                   text |-> r.text]
    /\ prompt_calls' = prompt_calls + 1
    /\ UNCHANGED <<count, threads, testers>>
    /\ UNCHANGED <<validator_vars, config_vars, call_vars, agent_vars,
                   construct_vars>>
    /\ UNCHANGED <<record_vars, splice_vars>>

\* ------------------------------------------------------------------------
\* The validator as an object: construction and its three operations
\* ------------------------------------------------------------------------
Self ==
    [tests_after |-> relevant_line_number_to_insert_tests_after,
     imports_after |-> relevant_line_number_to_insert_imports_after,
     indentation |-> test_headers_indentation,
     current_coverage |-> current_coverage,
     last_coverage_percentages |-> last_coverage_percentages,
     failed_test_runs |-> failed_test_runs,
     flag |-> use_report_coverage_feature_flag]

NoCallRecord ==
    [original_content |-> <<>>, test |-> NoCandidate, runs |-> <<>>,
     report |-> NoReport, diag |-> "none",
     pre_tests_after |-> None, pre_imports_after |-> None,
     pre_current_coverage |-> NoCoverage,
     pre_last_coverage_percentages |-> <<>>,
     pre_failed_test_runs |-> <<>>, time_of_test_command |-> 0,
     processed_test |-> <<>>, injected |-> 0, inserted |-> FALSE,
     log |-> <<>>]

\* UnitTestValidator.__init__
ValidatorInit ==
    /\ test_file = InitialTestFile
    /\ relevant_line_number_to_insert_tests_after = None
    /\ relevant_line_number_to_insert_imports_after = None
    /\ test_headers_indentation = None
    /\ current_coverage = NoCoverage
    /\ last_coverage_percentages = <<>>
    /\ failed_test_runs = <<>>
    /\ current_mutation_score = 0
    /\ phase = "constructed"
    /\ result = NoCall
    /\ call = NoCallRecord
    /\ calls = 0
    /\ accepted_coverage = <<>>

\* the arguments of the validator that decide what validate_test does
ValidatorConfigInit ==
    /\ num_attempts \in 0..MaxAttempts
    /\ use_report_coverage_feature_flag \in BOOLEAN

\* the arguments the agent loop reads, at the defaults of the constructor
DefaultGoalsInit ==
    /\ desired_coverage = 90
    /\ desired_mutation_score = 70
    /\ strict_mutation_score = FALSE
    /\ strict_coverage = FALSE
    /\ max_iterations = 0

\* init() has not measured the baseline yet
NoBaseline == [run |-> "none", report |-> "none"]

\* the attempt log of a new run
NoAttempts ==
    [inserted |-> 0, last |-> [test |-> NoCandidate, status |-> "NoCall"],
     raised |-> FALSE]

\* no iteration has re-measured coverage yet
NoRemeasure == [raised |-> FALSE, analysis |-> "none", report |-> "none"]

\* no splice taken on its own
NoSpliceInput ==
    [original_content |-> <<>>, generated_test |-> NoCandidate,
     tests_after |-> None, imports_after |-> None, needed_indent |-> None]

NoSplice ==
    [done |-> FALSE, performed |-> FALSE,
     test_code_lines |-> <<>>, with_test |-> <<>>,
     additional_imports |-> <<>>, additional_imports_lines |-> <<>>,
     processed_test_lines |-> <<>>, processed_test |-> <<>>,
     advanced_tests_after |-> None]

SpliceIdle ==
    /\ splice_in = NoSpliceInput
    /\ splice_out = NoSplice

\* no analysis taken on its own
NoAnalysis ==
    [indent_responses |-> <<>>, line_responses |-> <<>>, done |-> FALSE,
     raised |-> FALSE, asked |-> <<0, 0>>]

RecordVarsInit ==
    /\ test_db = NoAttempts
    /\ remeasure = NoRemeasure
    /\ suite_analysis = NoAnalysis
    /\ writes = {}

AgentVarsInit ==
    /\ pc = "start"
    /\ baseline = NoBaseline
    /\ iteration_count = 0
    /\ batch = <<>>
    /\ exit_status = None
    /\ exit_calls = 0
    /\ report_dumps = 0

\* the test_file_path the constructor handed to the validator
validator_test_file_path(log_) ==
    LET i == CHOOSE j \in DOMAIN log_ : log_[j].call = "UnitTestValidator"
    IN log_[i].b

\* lines 477-479, 496-497, 630-631, 666-667: each write of validate_test
\* opens self.test_file_path with mode "w"
file_writes(path, log) ==
    {[path |-> path, kind |-> "overwrite"] :
        i \in {j \in DOMAIN log : log[j] \in {"write_spliced", "rollback"}}}

\* one validate_test call and the record of what it was given
ValidateTestCall(generated_test, runs, report, diag) ==
    \E r \in {validate_test(Self, test_file, generated_test, runs, report, diag)} :
       /\ test_file' = r.test_file
       /\ relevant_line_number_to_insert_tests_after' = r.tests_after
       /\ current_coverage' = r.current_coverage
       /\ last_coverage_percentages' = r.last_coverage_percentages
       /\ failed_test_runs' = r.failed_test_runs
       /\ result' = r.result
       /\ call' =
            [original_content |-> test_file, test |-> generated_test,
             runs |-> runs, report |-> report, diag |-> diag,
             pre_tests_after |-> relevant_line_number_to_insert_tests_after,
             pre_imports_after |-> relevant_line_number_to_insert_imports_after,
             pre_current_coverage |-> current_coverage,
             pre_last_coverage_percentages |-> last_coverage_percentages,
             pre_failed_test_runs |-> failed_test_runs,
             time_of_test_command |-> time_of_test_command(runs),
             processed_test |-> IF r.inserted THEN r.processed_test ELSE <<>>,
             injected |-> IF r.inserted THEN r.injected ELSE 0,
             inserted |-> r.inserted,
             log |-> r.log]
       /\ calls' = calls + 1
       /\ writes' = writes \cup
                       file_writes(validator_test_file_path(construct_log), r.log)
       /\ accepted_coverage' =
            IF r.result.status = "PASS"
            THEN Append(accepted_coverage, r.current_coverage)
            ELSE accepted_coverage
       /\ UNCHANGED <<relevant_line_number_to_insert_imports_after,
                      test_headers_indentation, current_mutation_score, phase>>

\* validate_test called with a candidate of Cands and the inputs the call can
\* meet: runs as the loop makes them, a coverage report only when coverage is
\* measured, a diagnostic only when the run step failed
ValidateTestInputs(Cands) ==
    \E generated_test \in Cands :
      \E runs \in IF insertion_enabled(
                        indent_test_code(clean_test_code(generated_test),
                                         test_headers_indentation),
                        relevant_line_number_to_insert_tests_after)
                  THEN RunScripts(num_attempts) ELSE {<<>>} :
        \E report \in IF runs # <<>> /\ AllZero(runs)
                      THEN Reports(use_report_coverage_feature_flag)
                      ELSE {NoReport},
           diag \in IF runs # <<>> /\ runs[Len(runs)] = "nonzero"
                    THEN DiagOutcomes ELSE {"none"} :
            ValidateTestCall(generated_test, runs, report, diag)

\* validate_test called on the validator object
ValidateTest ==
    /\ calls < MaxCalls
    /\ ValidateTestInputs(Candidates)
    /\ UNCHANGED <<config_vars, agent_vars>>
    /\ UNCHANGED <<construct_vars, mutation_vars>>
    /\ UNCHANGED <<test_db, remeasure, suite_analysis, splice_vars>>

\* initial_test_suite_analysis called on the validator object
InitialTestSuiteAnalysis ==
    /\ phase = "constructed"
    /\ \E indent_responses \in IndentScripts, line_responses \in LineScripts :
        LET a == initial_test_suite_analysis(indent_responses, line_responses)
        IN /\ ~a.raised
           /\ test_headers_indentation' = a.indentation
           /\ relevant_line_number_to_insert_tests_after' = a.tests_after
           /\ relevant_line_number_to_insert_imports_after' = a.imports_after
    /\ phase' = "analysed"
    /\ result' = NoCall
    /\ call' = NoCallRecord
    /\ UNCHANGED <<test_file, current_coverage, last_coverage_percentages,
                   failed_test_runs, current_mutation_score>>
    /\ UNCHANGED <<config_vars, calls, accepted_coverage, agent_vars>>
    /\ UNCHANGED <<construct_vars, mutation_vars>>
    /\ UNCHANGED <<record_vars, splice_vars>>

\* get_coverage called on the validator object
GetCoverage ==
    /\ phase = "analysed"
    /\ \E run \in RunOutcomes, report \in Reports(use_report_coverage_feature_flag) :
        LET r == run_coverage(Self, run, report)
        IN /\ ~r.raised
           /\ current_coverage' = r.current_coverage
           /\ last_coverage_percentages' = r.last_coverage_percentages
    /\ UNCHANGED <<test_file, relevant_line_number_to_insert_tests_after,
                   relevant_line_number_to_insert_imports_after,
                   test_headers_indentation, failed_test_runs,
                   current_mutation_score, phase>>
    /\ result' = NoCall
    /\ call' = NoCallRecord
    /\ UNCHANGED <<config_vars, calls, accepted_coverage, agent_vars>>
    /\ UNCHANGED <<construct_vars, mutation_vars>>
    /\ UNCHANGED <<record_vars, splice_vars>>

Init ==
    /\ ValidatorInit /\ ValidatorConfigInit /\ DefaultGoalsInit /\ AgentVarsInit
    /\ ConstructedInit
    /\ MutationInit
    /\ RecordVarsInit
    /\ SpliceIdle

Next == ValidateTest \/ InitialTestSuiteAnalysis \/ GetCoverage

Spec == Init /\ [][Next]_vars

\* ------------------------------------------------------------------------
\* CoverAgent: init() and run_test_gen()
\* ------------------------------------------------------------------------
\* the candidates the generator returns in the agent runs of the model
AgentCandidates ==
    { candidate(<<"t">>, <<>>),
      candidate(<<SP, "t">>, <<QT, "i", NL, "j", QT>>) }

\* generated_tests_dict.get("new_tests", []): up to MaxBatch candidates
Batches == UNION { [1..n -> AgentCandidates] : n \in 0..MaxBatch }

\* the arguments of an agent run: one run of the test command per candidate,
\* the report feature flag off, every combination of the goals' switches
AgentConfigInit ==
    /\ num_attempts = 1
    /\ use_report_coverage_feature_flag = FALSE
    /\ desired_coverage = 50
    /\ desired_mutation_score \in {0, 70}
    /\ strict_mutation_score \in BOOLEAN
    /\ strict_coverage \in BOOLEAN
    /\ max_iterations \in 0..MaxIterations

\* desired_coverage / 100
desired_fraction(desired) == <<desired, 100>>

\* variant: the mutation goal is not part of the test that ends the loop
goals_met_coverage_only(cur_cov, desired_cov, cur_mut, desired_mut, strict_mut) ==
    frac_ge(cur_cov, desired_fraction(desired_cov))

\* variant: with strict_mutation_score either goal ends the loop
goals_met_either(cur_cov, desired_cov, cur_mut, desired_mut, strict_mut) ==
    LET coverage_goal_met == frac_ge(cur_cov, desired_fraction(desired_cov))
        mutation_goal_met == cur_mut >= desired_mut
    IN IF strict_mut THEN coverage_goal_met \/ mutation_goal_met
       ELSE coverage_goal_met

\* lines 242-252: the loop is left after this iteration
goals_met(cur_cov, desired_cov, cur_mut, desired_mut, strict_mut) ==
    LET coverage_goal_met == frac_ge(cur_cov, desired_fraction(desired_cov))
        mutation_goal_met == cur_mut >= desired_mut
    IN IF strict_mut THEN coverage_goal_met /\ mutation_goal_met
       ELSE coverage_goal_met

\* variant: the mutation goal is tested before strict_coverage
exit_status_mutation_first(cur_cov, desired_cov, iterations, max_iter, strict_cov, strict_mut, cur_mut, desired_mut) ==
    IF frac_ge(cur_cov, desired_fraction(desired_cov)) THEN 0
    ELSE IF iterations = max_iter
    THEN IF strict_mut /\ cur_mut < desired_mut THEN 3
         ELSE IF strict_cov THEN 2
         ELSE 0
    ELSE 0

\* variant: the strict exits are tested before the coverage goal
exit_status_strict_first(cur_cov, desired_cov, iterations, max_iter, strict_cov, strict_mut, cur_mut, desired_mut) ==
    IF iterations = max_iter
    THEN IF strict_cov THEN 2
         ELSE IF strict_mut /\ cur_mut < desired_mut THEN 3
         ELSE 0
    ELSE 0

\* lines 255-280: the status sys.exit is called with, 0 when it is not called
exit_status_after_loop(cur_cov, desired_cov, iterations, max_iter, strict_cov, strict_mut, cur_mut, desired_mut) ==
    IF frac_ge(cur_cov, desired_fraction(desired_cov)) THEN 0
    ELSE IF iterations = max_iter
    THEN IF strict_cov THEN 2
         ELSE IF strict_mut /\ cur_mut < desired_mut THEN 3
         ELSE 0
    ELSE 0

\* variant: the candidates of a batch are taken from its end
next_candidate_last(new_tests) == new_tests[Len(new_tests)]

\* line 206: the candidate the for loop takes from what is left of the batch
next_candidate(new_tests) == Head(new_tests)

\* UnitTestDB.insert_attempt stores the outcome, or raises
InsertOutcomes == {"ok", "raise"}

\* line 212: the attempt log after insert_attempt(test_result)
insert_attempt(db, test_result, db_outcome) ==
    IF db_outcome = "raise" THEN [db EXCEPT !.raised = TRUE]
    ELSE [inserted |-> db.inserted + 1,
          last |-> [test |-> test_result.test, status |-> test_result.status],
          raised |-> FALSE]

\* lines 222-240: the analysis of the failed tests is not made when
\* get_coverage raised or gave an empty list; it returns no test, returns
\* tests (which are then saved), or raises
AnalysisOutcomes(coverage_raised, failed_tests) ==
    IF coverage_raised \/ failed_tests = <<>> THEN {"none"}
    ELSE {"empty", "saved", "raise"}

\* an exception leaves run(): the process ends with a traceback
Crash ==
    /\ pc' = "crashed"
    /\ UNCHANGED <<iteration_count, batch, exit_status, exit_calls, report_dumps>>

\* init(): initial_test_suite_analysis
AgentAnalysis ==
    /\ pc = "start"
    /\ \E indent_responses \in IndentScripts, line_responses \in LineScripts :
        \E a \in {initial_test_suite_analysis(indent_responses, line_responses)} :
           /\ test_headers_indentation' = a.indentation
           /\ relevant_line_number_to_insert_tests_after' = a.tests_after
           /\ relevant_line_number_to_insert_imports_after' = a.imports_after
           /\ phase' = IF a.raised THEN phase ELSE "analysed"
           /\ pc' = IF a.raised THEN "crashed" ELSE "baseline"
    /\ UNCHANGED <<test_file, current_coverage, last_coverage_percentages,
                   failed_test_runs, current_mutation_score>>
    /\ UNCHANGED <<iteration_count, batch, exit_status, exit_calls, report_dumps>>
    /\ UNCHANGED <<config_vars, call_vars>>
    /\ UNCHANGED baseline
    /\ UNCHANGED <<construct_vars, mutation_vars>>
    /\ UNCHANGED <<record_vars, splice_vars>>

\* init(): get_coverage, the baseline measurement
AgentBaseline ==
    /\ pc = "baseline"
    /\ \E run \in RunOutcomes, report \in Reports(use_report_coverage_feature_flag) :
        \E r \in {run_coverage(Self, run, report)} :
           /\ current_coverage' = r.current_coverage
           /\ last_coverage_percentages' = r.last_coverage_percentages
           /\ pc' = IF r.raised THEN "crashed" ELSE "loop"
           /\ baseline' = [run |-> run, report |-> report.kind]
    /\ UNCHANGED <<test_file, relevant_line_number_to_insert_tests_after,
                   relevant_line_number_to_insert_imports_after,
                   test_headers_indentation, failed_test_runs,
                   current_mutation_score, phase>>
    /\ UNCHANGED <<iteration_count, batch, exit_status, exit_calls, report_dumps>>
    /\ UNCHANGED <<config_vars, call_vars>>
    /\ UNCHANGED <<construct_vars, mutation_vars>>
    /\ UNCHANGED <<record_vars, splice_vars>>

\* variant: the loop body is entered once before the budget is tested
while_test_after_body(iterations, max_iter) ==
    iterations = 0 \/ iterations < max_iter

\* line 198: the test of the while loop
while_test(iterations, max_iter) == iterations < max_iter

\* the while test of line 198, log_coverage and generate_tests
AgentGenerate ==
    /\ pc = "loop"
    /\ IF while_test(iteration_count, max_iterations)
       THEN IF current_coverage = NoCoverage
            THEN \* log_coverage reads an attribute that was never assigned
                 Crash
            ELSE /\ \E b \in Batches :
                      /\ calls + Len(b) <= MaxCalls
                      /\ batch' = b
                 /\ pc' = "validate"
                 /\ UNCHANGED <<iteration_count, exit_status, exit_calls,
                                report_dumps>>
       ELSE /\ pc' = "final"
            /\ UNCHANGED <<iteration_count, batch, exit_status, exit_calls,
                           report_dumps>>
    /\ UNCHANGED <<validator_vars, config_vars, call_vars>>
    /\ UNCHANGED baseline
    /\ UNCHANGED <<construct_vars, mutation_vars>>
    /\ UNCHANGED <<record_vars, splice_vars>>

\* lines 206-212: validate the next candidate of the batch, attach the
\* prompt to the outcome and record it
AgentValidate ==
    /\ pc = "validate"
    /\ batch # <<>>
    /\ ValidateTestInputs({next_candidate(batch)})
    /\ IF result'.status = "None"
       THEN \* test_result["prompt"] = ... raises TypeError on None
            /\ pc' = "crashed"
            /\ UNCHANGED test_db
       ELSE \E db \in InsertOutcomes :
               /\ test_db' = insert_attempt(test_db, result', db)
               /\ pc' = IF db = "raise" THEN "crashed" ELSE "validate"
    /\ batch' = Tail(batch)
    /\ UNCHANGED <<iteration_count, exit_status, exit_calls, report_dumps>>
    /\ UNCHANGED config_vars
    /\ UNCHANGED baseline
    /\ UNCHANGED <<construct_vars, mutation_vars>>
    /\ UNCHANGED <<remeasure, suite_analysis, splice_vars>>

\* lines 215-252: count the iteration, measure coverage again, analyse the
\* failed tests, test the goals
AgentMeasure ==
    /\ pc = "validate"
    /\ batch = <<>>
    /\ iteration_count' = iteration_count + 1
    /\ \E run \in RunOutcomes, report \in Reports(use_report_coverage_feature_flag) :
        \E r \in {run_coverage(Self, run, report)} :
         \E analysis \in AnalysisOutcomes(r.raised, failed_test_runs) :
           /\ current_coverage' = r.current_coverage
           /\ last_coverage_percentages' = r.last_coverage_percentages
           /\ remeasure' = [raised |-> r.raised, analysis |-> analysis,
                            report |-> report.kind]
           /\ pc' = IF r.raised \/ analysis = "raise" THEN "crashed"
                    ELSE IF goals_met(r.current_coverage, desired_coverage,
                                      current_mutation_score,
                                      desired_mutation_score,
                                      strict_mutation_score)
                    THEN "final" ELSE "loop"
    /\ result' = NoCall
    /\ call' = NoCallRecord
    /\ UNCHANGED <<test_file, relevant_line_number_to_insert_tests_after,
                   relevant_line_number_to_insert_imports_after,
                   test_headers_indentation, failed_test_runs,
                   current_mutation_score, phase>>
    /\ UNCHANGED <<batch, exit_status, exit_calls, report_dumps>>
    /\ UNCHANGED <<config_vars, calls, accepted_coverage>>
    /\ UNCHANGED baseline
    /\ UNCHANGED <<construct_vars, mutation_vars>>
    /\ UNCHANGED <<test_db, suite_analysis, writes, splice_vars>>

\* lines 254-295: the final messages, sys.exit, the report
AgentFinish ==
    /\ pc = "final"
    /\ IF current_coverage = NoCoverage
       THEN Crash
       ELSE \E status \in {exit_status_after_loop(
                               current_coverage, desired_coverage,
                               iteration_count, max_iterations, strict_coverage,
                               strict_mutation_score, current_mutation_score,
                               desired_mutation_score)} :
              IF status # 0
              THEN /\ pc' = "exited"
                   /\ exit_status' = status
                   /\ exit_calls' = exit_calls + 1
                   /\ UNCHANGED <<iteration_count, batch, report_dumps>>
              ELSE /\ pc' = "done"
                   /\ exit_status' = 0
                   /\ report_dumps' = report_dumps + 1
                   /\ UNCHANGED <<iteration_count, batch, exit_calls>>
    /\ UNCHANGED <<validator_vars, config_vars, call_vars>>
    /\ UNCHANGED baseline
    /\ UNCHANGED <<construct_vars, mutation_vars>>
    /\ UNCHANGED <<record_vars, splice_vars>>

AgentInit ==
    /\ ValidatorInit /\ AgentConfigInit /\ AgentVarsInit /\ ConstructedInit
    /\ MutationInit
    /\ RecordVarsInit
    /\ SpliceIdle

AgentNext ==
    \/ AgentAnalysis
    \/ AgentBaseline
    \/ AgentGenerate
    \/ AgentValidate
    \/ AgentMeasure
    \/ AgentFinish

AgentSpec == AgentInit /\ [][AgentNext]_vars

\* the construction of the agent, from every namespace and file system of
\* the model
ConstructSpecInit ==
    /\ ValidatorInit /\ DefaultGoalsInit /\ AgentVarsInit
    /\ num_attempts = 1
    /\ use_report_coverage_feature_flag = FALSE
    /\ ConstructInit
    /\ MutationInit
    /\ RecordVarsInit
    /\ SpliceIdle

ConstructNext == CoverAgentConstruct

ConstructSpec == ConstructSpecInit /\ [][ConstructNext]_vars

\* MutationTester objects constructed by the threads of one process
MutationNext ==
    \/ MutationTesterBegin
    \/ IncrementCountLoad
    \/ IncrementCountStore
    \/ SetReportHtmlFile
    \/ SetReportYamlFile
    \/ GeneratePrompt

MutationSpec == Init /\ [][MutationNext]_vars

\* the agent constructed with and without an output path, and then the
\* operations of its validator
OutputInit ==
    /\ ValidatorInit /\ DefaultGoalsInit /\ AgentVarsInit
    /\ num_attempts = 1
    /\ use_report_coverage_feature_flag = FALSE
    /\ fs = [source_file |-> TRUE, test_file |-> TRUE, project_root |-> TRUE]
    /\ args \in {a \in ArgsInputs : a.project_root = <<>> /\ a.log_db_path = <<>>}
    /\ cpc = "new"
    /\ construct_log = <<>>
    /\ construct_error = ""
    /\ MutationInit
    /\ RecordVarsInit
    /\ SpliceIdle

OutputNext ==
    \/ CoverAgentConstruct
    \/ cpc = "constructed" /\ Next

OutputSpec == OutputInit /\ [][OutputNext]_vars

\* ------------------------------------------------------------------------
\* The splice of validate_test (lines 415-476), taken on its own
\* ------------------------------------------------------------------------
\* test files: three lines; a file that holds the import lines of a
\* candidate; a single line
SpliceFiles ==
    { InitialTestFile,
      <<"i", NL, "j", NL, "a">>,
      <<"a">> }

\* candidates: those of the validator, and imports that are quoted once,
\* bare, a lone quote, and a quoted empty string inside blank space; test
\* code that opens with an empty line, and test code indented by three
SpliceCandidates ==
    Candidates \cup
    { candidate(<<"t">>, <<QT, "i", QT>>),
      candidate(<<"t", NL, "v">>, <<"j">>),
      candidate(<<"t">>, <<QT>>),
      candidate(<<"i">>, <<SP, QT, QT, NL>>),
      candidate(<<NL, "t">>, <<>>),
      candidate(<<SP, SP, SP, "t", NL, "v">>, <<>>) }

\* the fields validate_test reads: the insert line (unset, 0, inside and
\* past the end of the file), the imports line and the indentation
SpliceInputs ==
    [original_content : SpliceFiles,
     generated_test : SpliceCandidates,
     tests_after : {0, 1, 2, 5},
     imports_after : {None, 0, 1, 3, 4},
     needed_indent : {0, 2}]

\* lines 415-476 and 694-696: the values of the local variables of the
\* splice, and the insert line an accepted candidate leaves
splice(in) ==
    LET test_code_indented ==
            indent_test_code(clean_test_code(in.generated_test),
                             in.needed_indent)
        test_code_lines == split(test_code_indented)
        with_test == insert_test_lines(split(in.original_content),
                                       test_code_lines, in.tests_after)
        additional_imports == clean_additional_imports(in.generated_test)
        additional_imports_lines ==
            imports_to_insert(join(with_test), additional_imports,
                              in.imports_after)
    IN IF ~insertion_enabled(test_code_indented, in.tests_after)
       THEN [NoSplice EXCEPT !.done = TRUE]
       ELSE [done |-> TRUE, performed |-> TRUE,
             test_code_lines |-> test_code_lines,
             with_test |-> with_test,
             additional_imports |-> additional_imports,
             additional_imports_lines |-> additional_imports_lines,
             processed_test_lines |->
                 insert_import_lines(with_test, additional_imports_lines,
                                     in.imports_after),
             processed_test |->
                 processed_test_of(in.original_content, in.generated_test,
                                   in.tests_after, in.imports_after,
                                   in.needed_indent),
             advanced_tests_after |->
                 advance_tests_after(
                     in.tests_after,
                     injected_import_lines(in.original_content,
                                           in.generated_test, in.tests_after,
                                           in.imports_after,
                                           in.needed_indent))]

\* ------------------------------------------------------------------------
\* initial_test_suite_analysis (lines 214-299), taken on its own
\* ------------------------------------------------------------------------
\* indentations the model may answer: none, 0 (tests at top level), 2
AnalysisIndentAnswers == IndentAnswers \cup {0}

\* lines the model may answer: those of LineAnswers, a line past the end of
\* the three-line file, and an imports line below the tests line
AnalysisLineAnswers ==
    LineAnswers \cup
    { [tests |-> 5, imports |-> 4],
      [tests |-> 1, imports |-> 3] }

AnalysisIndentScripts == AnswerScripts(AnalysisIndentAnswers, {None})

AnalysisLineScripts ==
    AnswerScripts(AnalysisLineAnswers,
                  {a \in AnalysisLineAnswers : ~truthy(a.tests)})

AnalysisInit ==
    /\ ValidatorInit /\ DefaultGoalsInit /\ AgentVarsInit
    /\ num_attempts = 1
    /\ use_report_coverage_feature_flag = FALSE
    /\ ConstructedInit
    /\ MutationInit
    /\ test_db = NoAttempts
    /\ remeasure = NoRemeasure
    /\ writes = {}
    /\ SpliceIdle
    /\ \E indent_responses \in AnalysisIndentScripts,
          line_responses \in AnalysisLineScripts :
            suite_analysis = [NoAnalysis EXCEPT
                          !.indent_responses = indent_responses,
                          !.line_responses = line_responses]

\* the call: the three fields are assigned at lines 290-296, after both
\* raise statements, so a call that raises leaves them as they were
Analyse ==
    /\ ~suite_analysis.done
    /\ phase = "constructed"
    /\ \E a \in {initial_test_suite_analysis(suite_analysis.indent_responses,
                                               suite_analysis.line_responses)} :
         /\ suite_analysis' = [suite_analysis EXCEPT !.done = TRUE, !.raised = a.raised,
                                         !.asked = a.asked]
         /\ IF a.raised
            THEN UNCHANGED <<test_headers_indentation,
                             relevant_line_number_to_insert_tests_after,
                             relevant_line_number_to_insert_imports_after,
                             phase>>
            ELSE /\ test_headers_indentation' = a.indentation
                 /\ relevant_line_number_to_insert_tests_after' = a.tests_after
                 /\ relevant_line_number_to_insert_imports_after' =
                        a.imports_after
                 /\ phase' = "analysed"
    /\ UNCHANGED <<test_file, current_coverage, last_coverage_percentages,
                   failed_test_runs, current_mutation_score>>
    /\ UNCHANGED <<config_vars, call_vars, agent_vars, construct_vars,
                   mutation_vars, test_db, remeasure, writes, splice_vars>>

AnalysisNext == Analyse

AnalysisSpec == AnalysisInit /\ [][AnalysisNext]_vars

\* a call that was made runs to its end
AnalysisLiveSpec == AnalysisSpec /\ WF_vars(Analyse)

SpliceInit ==
    /\ ValidatorInit /\ DefaultGoalsInit /\ AgentVarsInit
    /\ num_attempts = 1
    /\ use_report_coverage_feature_flag = FALSE
    /\ ConstructedInit
    /\ MutationInit
    /\ RecordVarsInit
    /\ splice_in \in SpliceInputs
    /\ splice_out = NoSplice

\* the splice is computed for the input
Splice ==
    /\ ~splice_out.done
    /\ splice_out' = splice(splice_in)
    /\ UNCHANGED splice_in
    /\ UNCHANGED <<validator_vars, config_vars, call_vars, agent_vars,
                   construct_vars, mutation_vars, record_vars>>

SpliceNext == Splice

SpliceSpec == SpliceInit /\ [][SpliceNext]_vars

\* ------------------------------------------------------------------------
\* Properties of validate_test
\* ------------------------------------------------------------------------
\* the latest operation was a validate_test call that returned a dictionary
Returned == result.status \in {"PASS", "FAIL"}

\* the call spliced the candidate and wrote the test file
Wrote == result.status # "NoCall" /\ call.inserted

LastRun == call.runs[Len(call.runs)]

\* the command was run and every run exited 0
RunsPassed == Wrote /\ call.runs # <<>> /\ AllZero(call.runs)

\* the coverage the call measured
Measured ==
    post_process_coverage_report(use_report_coverage_feature_flag, call.report)

\* failed_test_runs grew by exactly one entry, for this candidate
AppendedOne ==
    /\ Len(failed_test_runs) = Len(call.pre_failed_test_runs) + 1
    /\ SubSeq(failed_test_runs, 1, Len(call.pre_failed_test_runs))
          = call.pre_failed_test_runs
    /\ failed_test_runs[Len(failed_test_runs)].code = call.test

\* C1 (as claimed): when a validate_test call returns, the test file holds
\* either the content it had when the call started, and the outcome is FAIL,
\* or that content with the candidate spliced in, and the outcome is PASS.
C1_ResolvedOnReturn ==
    Returned =>
        \/ result.status = "PASS" /\ test_file = call.processed_test
        \/ result.status = "FAIL" /\ test_file = call.original_content

\* C2: a candidate whose test-command run exits non-zero leaves the test
\* file as it was before the call, returns FAIL with reason "Test failed" and
\* appends exactly one entry to failed_test_runs.
C2_FailedRunRollsBack ==
    (Wrote /\ call.runs # <<>> /\ LastRun = "nonzero") =>
        /\ test_file = call.original_content
        /\ result.status = "FAIL"
        /\ result.reason = "Test failed"
        /\ AppendedOne

\* a second attempt exits non-zero after earlier failures were recorded
C2_Witness ==
    /\ Wrote
    /\ Len(call.runs) = 2
    /\ LastRun = "nonzero"
    /\ call.pre_failed_test_runs # <<>>
    /\ result.reason = "Test failed"
    /\ test_file # call.processed_test

\* C3: a candidate whose runs all exit 0 and whose measured coverage is less
\* than or equal to current_coverage is rejected with reason "Coverage did
\* not increase", the test file is restored and the candidate is appended to
\* failed_test_runs.
C3_NoIncreaseRejected ==
    (/\ RunsPassed
     /\ Measured.raised = ""
     /\ call.pre_current_coverage # NoCoverage
     /\ frac_le(Measured.percentage_covered, call.pre_current_coverage)) =>
        /\ result.status = "FAIL"
        /\ result.reason = "Coverage did not increase"
        /\ test_file = call.original_content
        /\ AppendedOne

\* a candidate that passes its runs and measures exactly current_coverage
C3_Witness ==
    /\ RunsPassed
    /\ Measured.raised = ""
    /\ call.pre_current_coverage # NoCoverage
    /\ frac_le(Measured.percentage_covered, call.pre_current_coverage)
    /\ frac_ge(Measured.percentage_covered, call.pre_current_coverage)
    /\ call.pre_current_coverage[1] > 0
    /\ result.reason = "Coverage did not increase"

\* committing the accepted candidate raises: the new report names a file
\* the previous snapshot does not hold
CommitRaises ==
    \E key \in DOMAIN Measured.coverage_percentages :
        key \notin DOMAIN call.pre_last_coverage_percentages

\* the acceptance rule as specified: every run exited 0, and the measured
\* coverage is greater than current_coverage or the mutation score improved
AcceptanceRule ==
    /\ RunsPassed
    /\ Measured.raised = ""
    /\ call.pre_current_coverage # NoCoverage
    /\ \/ frac_gt(Measured.percentage_covered, call.pre_current_coverage)
       \/ mutation_cov_increased

\* C4 (as claimed): validate_test returns PASS exactly when the acceptance
\* rule holds; on PASS current_coverage is the measured coverage, the
\* per-file snapshot is the new one, the spliced content stays on disk and
\* failed_test_runs is unchanged.
C4_PassExactlyWhenAccepted ==
    Returned =>
        /\ result.status = "PASS" <=> AcceptanceRule
        /\ result.status = "PASS" =>
              /\ current_coverage = Measured.percentage_covered
              /\ last_coverage_percentages = Measured.coverage_percentages
              /\ test_file = call.processed_test
              /\ failed_test_runs = call.pre_failed_test_runs

\* an unexpected error was raised after the spliced content was written:
\* the command runner raised, coverage processing raised, or committing the
\* accepted candidate raised
ErrorAfterWrite ==
    /\ Wrote
    /\ \/ call.runs # <<>> /\ LastRun = "raise"
       \/ RunsPassed /\ Measured.raised # ""
       \/ AcceptanceRule /\ CommitRaises

\* C5 (as claimed): an unexpected error after the write is caught, the test
\* file is restored to its content before the call and FAIL with reason
\* "Runtime error" is returned.
C5_ErrorRestoresFile ==
    ErrorAfterWrite =>
        /\ test_file = call.original_content
        /\ result.status = "FAIL"
        /\ result.reason = "Runtime error"

\* C6 (as claimed): validate_test returns an outcome with status PASS or
\* FAIL for every candidate in every validator state.
C6_AlwaysStructuredOutcome ==
    result.status # "NoCall" => result.status \in {"PASS", "FAIL"}

\* C7 (as claimed): with an empty test_code or a falsy test_insert_line,
\* validate_test returns FAIL without writing the test file and without
\* running the test command.
C7_NoOpRejected ==
    (/\ result.status # "NoCall"
     /\ \/ clean_test_code(call.test) = <<>>
        \/ ~truthy(call.pre_tests_after)) =>
        /\ result.status = "FAIL"
        /\ call.log = <<>>
        /\ test_file = call.original_content

\* C8 (as claimed): the values of current_coverage left by the accepted
\* candidates of a run are non-decreasing, re-measurements included.
C8_AcceptedNonDecreasing ==
    \A i, j \in 1..Len(accepted_coverage) :
        i < j => frac_le(accepted_coverage[i], accepted_coverage[j])

\* C8 (amended): an accepted candidate leaves current_coverage strictly
\* above the value it had when its validate_test call started.
C8_AcceptRaisesCoverage ==
    result.status = "PASS" =>
        /\ call.pre_current_coverage # NoCoverage
        /\ frac_gt(current_coverage, call.pre_current_coverage)
        /\ accepted_coverage[Len(accepted_coverage)] = current_coverage

\* a second candidate is accepted after a re-measurement lowered the value
\* the first accepted candidate had left
C8_Witness ==
    /\ result.status = "PASS"
    /\ Len(accepted_coverage) = 2
    /\ frac_lt(call.pre_current_coverage, accepted_coverage[1])

\* C9 (as claimed): an accepted candidate advances test_insert_line by the
\* number of import lines it injected; a rejected candidate leaves it as it
\* was.
C9_InsertLineAdvance ==
    Returned =>
        relevant_line_number_to_insert_tests_after =
            IF result.status = "PASS"
            THEN call.pre_tests_after + call.injected
            ELSE call.pre_tests_after

\* ------------------------------------------------------------------------
\* Properties of the agent loop
\* ------------------------------------------------------------------------
\* run_test_gen has ended: it returned, or sys.exit was called
Ended == pc \in {"done", "exited"}

CoverageBelowGoal ==
    frac_lt(current_coverage, desired_fraction(desired_coverage))

\* C10: when the iteration budget is exhausted with current_coverage below
\* desired_coverage/100 and strict_coverage set, sys.exit is called exactly
\* once, with status 2, whatever strict_mutation_score and the mutation
\* score are; status 3 is not produced.
C10_StrictCoverageExits2 ==
    (/\ Ended
     /\ iteration_count = max_iterations
     /\ CoverageBelowGoal
     /\ strict_coverage) =>
        /\ pc = "exited"
        /\ exit_status = 2
        /\ exit_calls = 1

\* both strict goals are set and missed after two iterations
C10_Witness ==
    /\ pc = "exited"
    /\ exit_status = 2
    /\ iteration_count = 2
    /\ strict_coverage
    /\ strict_mutation_score
    /\ current_mutation_score < desired_mutation_score
    /\ CoverageBelowGoal

\* the mutation goal is missed
MutationBelowGoal == current_mutation_score < desired_mutation_score

\* C11 (as claimed): when the iteration budget is exhausted, strict_coverage
\* is not set, strict_mutation_score is set and the mutation score is below
\* the desired one, sys.exit is called with status 3, whether or not the
\* coverage goal was met.
C11_StrictMutationExits3 ==
    (/\ Ended
     /\ iteration_count = max_iterations
     /\ ~strict_coverage
     /\ strict_mutation_score
     /\ MutationBelowGoal) =>
        /\ pc = "exited"
        /\ exit_status = 3

\* the goal of the run as specified: the coverage goal, and the mutation
\* goal when strict_mutation_score is set
GoalMet ==
    /\ current_coverage # NoCoverage
    /\ ~CoverageBelowGoal
    /\ strict_mutation_score => ~MutationBelowGoal

\* C12: a run that ends with its goal met, or with the budget exhausted and
\* neither strict_coverage nor strict_mutation_score set, returns normally
\* from run_test_gen: sys.exit is not called and the status is 0.
C12_NormalReturn ==
    (/\ Ended
     /\ \/ GoalMet
        \/ /\ iteration_count = max_iterations
           /\ ~strict_coverage
           /\ ~strict_mutation_score) =>
        /\ pc = "done"
        /\ exit_status = 0
        /\ exit_calls = 0

\* both strict switches are set, the budget of two iterations is used up and
\* the goal is met
C12_Witness ==
    /\ pc = "done"
    /\ GoalMet
    /\ strict_coverage
    /\ strict_mutation_score
    /\ max_iterations = 2
    /\ iteration_count = max_iterations

\* run_test_gen is over: it returned, called sys.exit, or an exception left it
Terminated == pc \in {"done", "exited", "crashed"}

\* the loop was left before the budget was used up
StoppedEarly ==
    pc \in {"final", "done", "exited"} /\ iteration_count < max_iterations

\* the loop goes on after an iteration's re-measurement
GoesOn == pc = "loop" /\ iteration_count > 0

\* what is left of a run: <<iterations left, steps left before the batch is
\* validated, candidates left in the batch>>, all 0 once the run is over
Rank ==
    IF Terminated THEN <<0, 0, 0>>
    ELSE IF pc = "final" THEN <<0, 1, 0>>
    ELSE IF pc = "validate"
    THEN <<max_iterations - iteration_count + 1, 0, Len(batch)>>
    ELSE IF pc = "loop"
    THEN <<Max(max_iterations - iteration_count, 0) + 1, 1, 0>>
    ELSE IF pc = "baseline" THEN <<max_iterations + 2, 0, 0>>
    ELSE <<max_iterations + 3, 0, 0>>

\* the lexicographic order on triples of naturals, which is well founded
LexLess(a, b) ==
    \/ a[1] < b[1]
    \/ a[1] = b[1] /\ a[2] < b[2]
    \/ a[1] = b[1] /\ a[2] = b[2] /\ a[3] < b[3]

\* C13: the loop makes at most max_iterations iterations; it is left before
\* the budget is used up exactly when, after an iteration's re-measurement,
\* the coverage goal and (with strict_mutation_score) the mutation goal are
\* met; and run_test_gen always terminates: every step of a run lowers its
\* rank in a well-founded order, so no run takes infinitely many steps.
C13_BoundedLoopTerminates ==
    /\ [](/\ iteration_count <= max_iterations
          /\ StoppedEarly => GoalMet
          /\ GoesOn => ~GoalMet)
    /\ [][LexLess(Rank', Rank)]_vars

\* the goal is met after the first of two iterations, with the strict
\* mutation goal in force
C13_Witness ==
    /\ pc = "done"
    /\ iteration_count = 1
    /\ max_iterations = 2
    /\ strict_mutation_score
    /\ GoalMet

\* the candidate passed its runs and the coverage check
PassedCoverageCheck ==
    /\ RunsPassed
    /\ Measured.raised = ""
    /\ call.pre_current_coverage # NoCoverage
    /\ frac_gt(Measured.percentage_covered, call.pre_current_coverage)

\* C14 (as claimed): with strict_mutation_score set, a candidate that passes
\* its runs and the coverage check but does not improve the mutation score
\* is rejected with FAIL and the test file is restored to its content
\* before the call.
C14_StrictMutationRejects ==
    (/\ Returned
     /\ strict_mutation_score
     /\ PassedCoverageCheck
     /\ ~mutation_cov_increased
     /\ current_mutation_score = 0) =>
        /\ result.status = "FAIL"
        /\ test_file = call.original_content

\* C18 (as claimed): every run of run_test_gen that ends has dumped the
\* attempt report exactly once, the run that ends with sys.exit(2) included.
C18_ReportDumpedOnce == Ended => report_dumps = 1

\* the baseline test command of init() exited non-zero, or its coverage
\* report was missing or not updated (the coverage processor's assertion)
BaselineFailed ==
    \/ baseline.run = "nonzero"
    \/ baseline.run = "zero" /\ baseline.report = "AssertionError"

\* C17: when the baseline test command exits non-zero, or its coverage report
\* is missing or not updated, the run is aborted by the exception before a
\* candidate is generated or validated, and the failing step leaves the test
\* file and the insertion point as they were.
C17_BaselineFailureAborts ==
    /\ [](BaselineFailed =>
            /\ pc = "crashed"
            /\ iteration_count = 0
            /\ batch = <<>>
            /\ calls = 0
            /\ result = NoCall
            /\ test_file = InitialTestFile)
    /\ [][BaselineFailed' =>
            UNCHANGED <<test_file, relevant_line_number_to_insert_tests_after,
                        relevant_line_number_to_insert_imports_after>>]_vars

\* the baseline command exits non-zero after the analysis chose line 2
C17_Witness ==
    /\ baseline.run = "nonzero"
    /\ pc = "crashed"
    /\ relevant_line_number_to_insert_tests_after = 2

\* ------------------------------------------------------------------------
\* Properties of the construction of the agent
\* ------------------------------------------------------------------------
PathErrors ==
    {"FileNotFoundError: Source file", "FileNotFoundError: Test file",
     "FileNotFoundError: Project root"}

\* the error _validate_paths is claimed to raise, "" when the paths are valid
ClaimedPathError ==
    IF ~fs.source_file THEN "FileNotFoundError: Source file"
    ELSE IF ~fs.test_file THEN "FileNotFoundError: Test file"
    ELSE IF args.project_root # <<>> /\ ~fs.project_root
    THEN "FileNotFoundError: Project root"
    ELSE ""

\* the calls of the log that are calls of `name`
CallsOf(log, name) == SelectSeq(log, LAMBDA e : e.call = name)

\* C15: constructing the agent raises FileNotFoundError when the source
\* file is missing, else when the test file is missing, else when a
\* non-empty project_root is not a directory; the error is raised before the
\* test file is copied and before the generator, the validator or the
\* analyzer is constructed, and no check is made twice.
C15_PathErrorsInOrder ==
    cpc # "new" =>
        /\ ClaimedPathError # "" =>
              /\ cpc = "raised"
              /\ construct_error = ClaimedPathError
        /\ construct_error \in PathErrors =>
              /\ construct_error = ClaimedPathError
              /\ \A i \in 1..Len(construct_log) :
                    construct_log[i].call \in {"isfile", "isdir"}
              /\ \A i, j \in 1..Len(construct_log) :
                    i # j => construct_log[i] # construct_log[j]

\* the source file and the test file are both missing
C15_Witness ==
    /\ cpc = "raised"
    /\ ~fs.source_file
    /\ ~fs.test_file
    /\ construct_error = "FileNotFoundError: Source file"
    /\ Len(construct_log) = 1

\* C16: when the paths are valid, a non-empty test_file_output_path makes the
\* constructor copy test_file_path to it exactly once and leaves the path
\* as it is; an empty one makes no copy and sets test_file_output_path to
\* test_file_path; the validator is constructed on test_file_output_path.
C16_DuplicateTestFile ==
    [][(cpc = "new" /\ construct_error' \notin PathErrors) =>
         /\ IF args.test_file_output_path # <<>>
            THEN /\ CallsOf(construct_log', "copy") =
                        <<called("copy", args.test_file_path,
                                 args.test_file_output_path)>>
                 /\ args'.test_file_output_path = args.test_file_output_path
            ELSE /\ CallsOf(construct_log', "copy") = <<>>
                 /\ args'.test_file_output_path = args.test_file_path
         /\ cpc' = "constructed" =>
               CallsOf(construct_log', "UnitTestValidator") =
                   <<called("UnitTestValidator", args.source_file_path,
                            args'.test_file_output_path)>>]_vars

\* an agent constructed with an output path: one copy was made
C16_Witness ==
    /\ cpc = "constructed"
    /\ args.test_file_output_path = OutputFilePath
    /\ Len(CallsOf(construct_log, "copy")) = 1
    /\ Len(CallsOf(construct_log, "UnitTestValidator")) = 1

\* ------------------------------------------------------------------------
\* MutationTester report names and report reading
\* ------------------------------------------------------------------------

\* the characters of a report name before its first underscore
RECURSIVE counter_of(_)
counter_of(name) ==
    IF name = <<>> \/ Head(name) = "_" THEN <<>>
    ELSE <<Head(name)>> \o counter_of(Tail(name))

\* C19: in one process any two MutationTester objects have different report
\* file names, whether their constructors ran one after the other or
\* interleaved, and the HTML and the YAML name of one object carry the same
\* counter value.
C19_ReportNamesNeverCollide ==
    /\ \A i, j \in 1 .. Len(testers) :
          i # j =>
             /\ testers[i].report_html_file # testers[j].report_html_file
             /\ testers[i].report_yaml_file # testers[j].report_yaml_file
    /\ \A i \in 1 .. Len(testers) :
          counter_of(testers[i].report_html_file)
             = counter_of(testers[i].report_yaml_file)

\* a generate_prompt call whose every read attempt failed
AllReadsFailed ==
    /\ prompt_calls > 0
    /\ \A k \in 1 .. Len(prompt.reads) : prompt.reads[k].error # ""

\* the prompts of the readable reports that have no surviving mutant
NoSurvivorPrompts ==
    {prompt_lines(d) :
        d \in {e \in MutationReports :
                  /\ e.keys # {}
                  /\ mutant_details(get(e, "mutations", e.mutations, <<>>))
                        = <<>>}}

\* C20 as stated: the report is read at most 3 times, and when every attempt
\* fails generate_prompt ends in a hard failure (an exception), which no
\* readable report without surviving mutants produces.
C20_HardFailureAfterRetries ==
    /\ prompt.attempts <= 3
    /\ AllReadsFailed => prompt.raised # ""

\* C20, amended: the report is read at most 3 times; when every attempt
\* fails exactly 3 reads were made, load_report returns None and
\* generate_prompt returns the empty string without raising, which differs
\* from the prompt of every readable report without surviving mutants.
C20_SoftFailureAfterRetries ==
    /\ prompt.attempts <= 3
    /\ AllReadsFailed =>
          /\ prompt.attempts = 3
          /\ ~prompt.loaded
          /\ prompt.raised = ""
          /\ prompt.text = <<>>
          /\ prompt.text \notin NoSurvivorPrompts

\* three failed reads, the last of them of a report that does not parse
C20_Witness ==
    /\ AllReadsFailed
    /\ prompt.attempts = 3
    /\ prompt.reads[3].error = "YAMLError"

\* ------------------------------------------------------------------------
\* The attempt log and the analysis of the failed tests
\* ------------------------------------------------------------------------

\* C21: when insert_attempt raises, the agent loop goes on: the run does not
\* end with the exception, so the rest of the batch is validated and the
\* goals are tested.
C21_PersistFailureNotFatal == test_db.raised => pc # "crashed"

\* C22: whatever the analysis of the failed tests returns or raises, the run
\* goes on as if it had not been made: an analysis that raises does not end
\* the run.
C22_AnalysisHasNoEffect ==
    (remeasure.analysis = "raise" /\ ~remeasure.raised) => pc # "crashed"

\* ------------------------------------------------------------------------
\* validate_test: the run step, the order of its effects, its frame
\* ------------------------------------------------------------------------

\* the position of an event in the log of the call, 0 when it is absent
EventAt(name) ==
    IF \E i \in 1..Len(call.log) : call.log[i] = name
    THEN CHOOSE i \in 1..Len(call.log) :
            call.log[i] = name /\ \A j \in 1..(i - 1) : call.log[j] # name
    ELSE 0

\* the call went past the run step: it measured coverage
RunStepPassed == Wrote /\ EventAt("coverage") > 0

\* C23: for a spliced candidate the command is run num_attempts times when
\* every run exits 0, and otherwise up to the first run that does not (no
\* run follows it); the run step is passed only after num_attempts runs that
\* all exited 0.
C23_FailFastRuns ==
    Wrote =>
        /\ Len(call.runs) <= num_attempts
        /\ \A i \in 1..(Len(call.runs) - 1) : call.runs[i] = "zero"
        /\ AllZero(call.runs) => Len(call.runs) = num_attempts
        /\ (RunStepPassed \/ result.status = "PASS") =>
              Len(call.runs) = num_attempts /\ AllZero(call.runs)

\* two attempts allowed, the second run exits non-zero
C23_Witness ==
    /\ Wrote
    /\ num_attempts = 2
    /\ call.runs = <<"zero", "nonzero">>
    /\ result.reason = "Test failed"

\* C24: validate_test measures coverage only right after a run of the
\* command on the spliced content that exited 0, with the time of that run;
\* nothing is written between that run and the measurement, and
\* current_coverage is replaced only while the measured content is on disk.
C24_CoverageAfterRun ==
    RunStepPassed =>
        /\ call.log[1] = "write_spliced"
        /\ call.runs # <<>> /\ AllZero(call.runs)
        /\ EventAt("coverage") = Len(call.runs) + 2
        /\ \A i \in 2..(Len(call.runs) + 1) : call.log[i] = "run"
        /\ call.time_of_test_command = Len(call.runs)
        /\ current_coverage # call.pre_current_coverage =>
              /\ EventAt("rollback") = 0
              /\ test_file = call.processed_test
              /\ current_coverage = Measured.percentage_covered

\* a measurement after two runs that replaced current_coverage
C24_Witness ==
    /\ RunStepPassed
    /\ Len(call.runs) = 2
    /\ result.status = "PASS"
    /\ current_coverage # call.pre_current_coverage

\* the run step of the call failed: its last run exited non-zero
RunStepFailed == Wrote /\ call.runs # <<>> /\ LastRun = "nonzero"

\* C26: on a failing run the test file is restored before the diagnostic
\* summary is requested; when the diagnostic collaborator raises, the summary
\* is empty, the candidate is appended to failed_test_runs all the same and
\* the call returns FAIL with reason "Test failed".
C26_DiagnosticBestEffort ==
    RunStepFailed =>
        /\ 0 < EventAt("rollback")
        /\ EventAt("rollback") < EventAt("diagnostic")
        /\ test_file = call.original_content
        /\ AppendedOne
        /\ result.status = "FAIL" /\ result.reason = "Test failed"
        /\ call.diag = "raise" =>
              failed_test_runs[Len(failed_test_runs)].error_message = ""

\* a failing run whose diagnostic raised
C26_Witness ==
    /\ RunStepFailed
    /\ call.diag = "raise"
    /\ test_file # call.processed_test

\* C27: a validate_test call that returns FAIL has appended exactly one entry
\* for its candidate to failed_test_runs, and one that returns PASS has
\* appended none.
C27_FailAppendsOnce ==
    /\ result.status = "FAIL" => AppendedOne
    /\ result.status = "PASS" => failed_test_runs = call.pre_failed_test_runs

\* C28: a validate_test call that returns FAIL leaves current_coverage, the
\* per-file coverage, both insertion lines and the indentation as they were
\* before the call.
C28_FailKeepsAcceptState ==
    result.status = "FAIL" =>
        /\ current_coverage = call.pre_current_coverage
        /\ last_coverage_percentages = call.pre_last_coverage_percentages
        /\ relevant_line_number_to_insert_tests_after = call.pre_tests_after
        /\ relevant_line_number_to_insert_imports_after = call.pre_imports_after

\* ------------------------------------------------------------------------
\* The batch of one iteration
\* ------------------------------------------------------------------------

\* one step of the agent seen from the batch: a validate_test call is made
\* on the first candidate left, which is then dropped, and its outcome is in
\* the attempt log when the step ends without an exception; while candidates
\* are left nothing but such a call is made; the iteration is counted and
\* coverage re-measured only with no candidate left
BatchStep ==
    /\ calls' # calls =>
          /\ pc = "validate" /\ batch # <<>>
          /\ calls' = calls + 1
          /\ call'.test = Head(batch)
          /\ batch' = Tail(batch)
          /\ pc' # "crashed" =>
                /\ test_db'.inserted = test_db.inserted + 1
                /\ test_db'.last =
                      [test |-> Head(batch), status |-> result'.status]
    /\ (pc = "validate" /\ batch # <<>>) =>
          /\ calls' = calls + 1
          /\ pc' \in {"validate", "crashed"}
          /\ iteration_count' = iteration_count
          /\ remeasure' = remeasure
    /\ (iteration_count' # iteration_count \/ remeasure' # remeasure) =>
          /\ pc = "validate" /\ batch = <<>>
          /\ iteration_count' = iteration_count + 1
    /\ (batch' # batch /\ calls' = calls) =>
          pc = "loop" /\ pc' = "validate" /\ batch = <<>>

\* C25: in one iteration the candidates of the batch are validated once each
\* in the order the generator returned them, each outcome is recorded before
\* the next candidate is validated, and coverage is re-measured and the goals
\* tested only after the whole batch, also when an earlier candidate of the
\* batch already reached the coverage goal.
C25_WholeBatchInOrder ==
    /\ [](pc \in {"validate", "loop", "final"} => test_db.inserted = calls)
    /\ [][BatchStep]_vars

\* the first candidate of a batch of two reached the coverage goal, and the
\* second one was validated (and rejected) before any re-measurement
C25_Witness ==
    /\ pc = "validate" /\ batch = <<>>
    /\ iteration_count = 0
    /\ calls = 2 /\ test_db.inserted = 2
    /\ Len(accepted_coverage) = 1
    /\ frac_ge(accepted_coverage[1], desired_fraction(desired_coverage))
    /\ result.status = "FAIL"

\* ------------------------------------------------------------------------
\* The splice
\* ------------------------------------------------------------------------

\* lines is the list head with ins inserted after its first n elements (all
\* of them when it has fewer): every element of head once, in order, and
\* those of ins together
InsertedAt(lines, head, ins, n) ==
    LET p == Min(n, Len(head))
    IN /\ Len(lines) = Len(head) + Len(ins)
       /\ \A i \in 1..p : lines[i] = head[i]
       /\ \A j \in 1..Len(ins) : lines[p + j] = ins[j]
       /\ \A i \in (p + 1)..Len(head) : lines[Len(ins) + i] = head[i]

\* C29: with N the insert line, the line list of the spliced content (before
\* any import is inserted) is the first N lines of the original content,
\* the lines of the candidate, then the other original lines; with no import
\* inserted this is the line list of the content that is written.
C29_SpliceKeepsLines ==
    (splice_out.done /\ splice_out.performed) =>
        /\ InsertedAt(splice_out.with_test, split(splice_in.original_content),
                      splice_out.test_code_lines, splice_in.tests_after)
        /\ splice_out.additional_imports_lines = <<>> =>
              split(splice_out.processed_test) = splice_out.with_test

\* a candidate of several lines spliced after the second of three lines
C29_Witness ==
    /\ splice_out.done /\ splice_out.performed
    /\ splice_in.tests_after = 2
    /\ splice_in.original_content = InitialTestFile
    /\ Len(splice_out.test_code_lines) >= 4
    /\ splice_out.with_test[2] = <<"b">>
    /\ splice_out.with_test[Len(splice_out.with_test)] = <<"c">>

\* the imports text of the candidate of the splice, stripped of blank space
\* and of the quotes around it
StrippedImports ==
    LET a == strip(splice_in.generated_test.new_imports_code)
    IN IF a # <<>> /\ a[1] = QT /\ a[Len(a)] = QT THEN strip_char(a, QT) ELSE a

C30_WitnessPresent ==
    /\ splice_out.done /\ splice_out.performed
    /\ splice_in.imports_after = 1
    /\ StrippedImports # <<>>
    /\ contains(join(splice_out.with_test), StrippedImports)
    /\ splice_out.additional_imports_lines = <<>>

\* ------------------------------------------------------------------------
\* The insertion point
\* ------------------------------------------------------------------------

\* the number of lines of the test file
NumLines == Len(split(test_file))

\* C31: between the calls of a run, once the analysis has returned,
\* test_insert_line, and import_insert_line when it is set, is a line offset
\* of the test file: at least 0 and at most its number of lines.
C31_InsertLinesInFile ==
    phase = "analysed" =>
        /\ relevant_line_number_to_insert_tests_after \in 0..NumLines
        /\ relevant_line_number_to_insert_imports_after # None =>
              relevant_line_number_to_insert_imports_after \in 0..NumLines

\* ------------------------------------------------------------------------
\* Re-indentation
\* ------------------------------------------------------------------------

\* a line of blank space only
IsBlank(line) == \A i \in 1..Len(line) : line[i] = SP

\* the number of leading spaces of a line
LeadingSpaces(line) == Len(line) - Len(lstrip(line))

\* the first line of a text that is not blank (the text has one)
FirstCodeLine(text) ==
    LET lines == split(text)
        first == CHOOSE i \in 1..Len(lines) :
                    /\ ~IsBlank(lines[i])
                    /\ \A j \in 1..(i - 1) : IsBlank(lines[j])
    IN lines[first]

\* C32: for every candidate with test code, also one that opens with blank
\* lines: the blank lines before and after the code are stripped, and the
\* first line of the inserted candidate has header_indentation leading spaces
\* when the candidate's own first line has fewer, and its own indentation
\* otherwise.
C32_FirstLineIndentation ==
    (/\ splice_out.done /\ splice_out.performed
     /\ strip(splice_in.generated_test.test_code) # <<>>) =>
        LET lines == splice_out.test_code_lines
            own == LeadingSpaces(FirstCodeLine(splice_in.generated_test.test_code))
        IN /\ Len(lines) >= 3
           /\ ~IsBlank(lines[2])
           /\ ~IsBlank(lines[Len(lines) - 1])
           /\ LeadingSpaces(lines[2]) =
                 IF own < splice_in.needed_indent
                 THEN splice_in.needed_indent ELSE own

\* ------------------------------------------------------------------------
\* Errors of the coverage processor
\* ------------------------------------------------------------------------

\* the baseline measurement of init() met a report that cannot be parsed
BaselineParseError == baseline.run = "zero" /\ baseline.report = "ValueError"

\* the re-measurement of the latest iteration met such a report after a run
\* that exited 0, the analysis of the failed tests did not raise, and no
\* candidate was validated since
RemeasureParseError ==
    /\ remeasure.report = "ValueError" /\ ~remeasure.raised
    /\ remeasure.analysis # "raise"
    /\ result.status = "NoCall"

\* the latest validate_test call met such a report
ValidateParseError == result.status # "NoCall" /\ call.report.kind = "ValueError"

\* C33: a report the coverage processor cannot parse (ValueError,
\* NotImplementedError) does not abort the run: after run_coverage met one,
\* at the baseline or in an iteration, the loop goes on; validate_test
\* answers it with FAIL and the test file rolled back.
C33_ParseErrorDoesNotAbort ==
    /\ BaselineParseError => pc # "crashed"
    /\ RemeasureParseError => pc # "crashed"
    /\ ValidateParseError =>
          (result.status = "FAIL" /\ test_file = call.original_content)

\* ------------------------------------------------------------------------
\* The mutation score
\* ------------------------------------------------------------------------

\* the while loop of run_test_gen has been left (by its test or by break)
LoopLeft == pc \in {"final", "done", "exited"}

\* C34: current_mutation_score is 0 in every state of a run; hence with
\* strict_mutation_score and a desired mutation score above 0 the loop is
\* never left before max_iterations iterations, whatever the coverage.
C34_MutationScoreStaysZero ==
    /\ current_mutation_score = 0
    /\ (strict_mutation_score /\ desired_mutation_score > 0 /\ LoopLeft) =>
          iteration_count = max_iterations

\* a strict run that reached the coverage goal and still used two iterations
C34_Witness ==
    /\ strict_mutation_score /\ desired_mutation_score > 0
    /\ LoopLeft
    /\ frac_ge(current_coverage, desired_fraction(desired_coverage))
    /\ Len(accepted_coverage) >= 1
    /\ iteration_count = 2

\* ------------------------------------------------------------------------
\* The first iteration
\* ------------------------------------------------------------------------

\* the path of lines 266-280 for a run whose budget is used up: the status
\* of sys.exit, 0 when the run only logs the failure message
BudgetExhaustedStatus ==
    IF strict_coverage THEN 2
    ELSE IF strict_mutation_score /\ current_mutation_score < desired_mutation_score
    THEN 3
    ELSE 0

\* the loop is reached with a budget and a baseline coverage
FirstLoopTest ==
    /\ pc = "loop" /\ iteration_count = 0 /\ max_iterations >= 1
    /\ current_coverage # NoCoverage

\* C35: with max_iterations >= 1 the loop makes at least one iteration, also
\* when the baseline coverage meets the goal (the goal is tested after an
\* iteration only); with max_iterations = 0 no candidate is generated, and
\* when the goal is unmet the path of the used-up budget is taken.
C35_GoalTestedAfterIteration ==
    /\ [](/\ (LoopLeft /\ max_iterations >= 1) => iteration_count >= 1
          /\ max_iterations = 0 =>
                (calls = 0 /\ batch = <<>> /\ iteration_count = 0)
          /\ (/\ max_iterations = 0 /\ pc \in {"done", "exited"}
              /\ ~frac_ge(current_coverage, desired_fraction(desired_coverage)))
                => exit_status = BudgetExhaustedStatus)
    /\ [][FirstLoopTest => pc' = "validate"]_vars

\* the baseline meets the goal and candidates are generated all the same
C35_Witness ==
    /\ pc = "validate" /\ iteration_count = 0 /\ calls = 0
    /\ batch # <<>>
    /\ frac_ge(current_coverage, desired_fraction(desired_coverage))

\* no budget, goal unmet, strict coverage: the run exits with status 2
C35_WitnessNoBudget ==
    /\ max_iterations = 0 /\ pc = "exited" /\ exit_status = 2
    /\ ~frac_ge(current_coverage, desired_fraction(desired_coverage))

\* ------------------------------------------------------------------------
\* The list of failed tests
\* ------------------------------------------------------------------------

\* a is b or the beginning of b
IsPrefix(a, b) == Len(a) <= Len(b) /\ SubSeq(b, 1, Len(a)) = a

\* the step that counts an iteration and measures coverage again, when
\* get_coverage returned
MeasureStep == iteration_count' = iteration_count + 1 /\ ~remeasure'.raised

\* the candidates that validate_test has answered with FAIL so far (a call
\* that returns None ends the run)
FailedCandidates == calls - Len(accepted_coverage)

\* no step clears, shortens or reorders failed_test_runs
FailedRunsOnlyGrow == IsPrefix(failed_test_runs, failed_test_runs')

\* after an iteration with a non-empty list the analysis is invoked
AnalysedWhenListed ==
    (MeasureStep /\ failed_test_runs # <<>>) => remeasure'.analysis # "none"

\* C36: failed_test_runs only grows during a run; hence once a candidate
\* has failed, the analysis of the failed tests is invoked after every
\* later iteration, with all the failures of the run so far.
C36_FailuresAccumulate ==
    /\ [][FailedRunsOnlyGrow]_vars
    /\ [][(MeasureStep /\ FailedCandidates > 0) =>
             (/\ remeasure'.analysis # "none"
              /\ Len(failed_test_runs') = FailedCandidates)]_vars

\* the steps of a run keep the list and analyse it whenever it is not empty
C36_ListedFailuresAnalysed ==
    [][FailedRunsOnlyGrow /\ AnalysedWhenListed]_vars

\* ------------------------------------------------------------------------
\* The files written
\* ------------------------------------------------------------------------

\* the agent was given an output path that is not the test file
OutputPathGiven ==
    /\ args.test_file_output_path # <<>>
    /\ args.test_file_output_path # args.test_file_path

\* C37: with a test_file_output_path that differs from test_file_path the
\* original test file is never written: the constructor copies it once to
\* the output path, and every write of validate_test, splice and rollback
\* alike, overwrites the whole file at the output path.
C37_OriginalNeverWritten ==
    (cpc # "new" /\ OutputPathGiven) =>
        /\ \A w \in writes : w.path = args.test_file_output_path
        /\ Len(CallsOf(construct_log, "copy")) = 1
        /\ Wrote =>
              [path |-> args.test_file_output_path, kind |-> "overwrite"]
                  \in writes

\* a candidate spliced and rolled back, and one accepted, on the copy
C37_Witness ==
    /\ OutputPathGiven
    /\ [path |-> OutputFilePath, kind |-> "copy"] \in writes
    /\ [path |-> OutputFilePath, kind |-> "overwrite"] \in writes
    /\ failed_test_runs # <<>>
    /\ result.status = "PASS"

\* ------------------------------------------------------------------------
\* The lines of an accepted candidate
\* ------------------------------------------------------------------------

\* where the lines of the candidate of the splice start (the index of the
\* line before them) once its imports are in: after the first test_insert_line
\* lines, moved down by the import lines inserted at or above them
BlockStart ==
    LET p == Min(splice_in.tests_after, Len(split(splice_in.original_content)))
        k == Len(splice_out.additional_imports_lines)
        q == Min(splice_in.imports_after, Len(splice_out.with_test))
    IN IF k > 0 /\ q <= p THEN p + k ELSE p

\* the lines of the candidate are together in the content that is written
BlockContiguous ==
    SubSeq(splice_out.processed_test_lines, BlockStart + 1,
           BlockStart + Len(splice_out.test_code_lines))
        = splice_out.test_code_lines

\* the index a later candidate is inserted at, once this one is accepted,
\* does not lie inside the lines of this one
NextInsertOutside ==
    LET n == Min(splice_out.advanced_tests_after,
                 Len(splice_out.processed_test_lines))
    IN n <= BlockStart \/ n >= BlockStart + Len(splice_out.test_code_lines)

\* the insertion point lies in the file, the imports line not below the
\* tests line
WellFormedInsertionPoint ==
    /\ splice_in.tests_after <= Len(split(splice_in.original_content))
    /\ splice_in.imports_after <= splice_in.tests_after

\* C38: for every insertion point the lines of an accepted candidate stay
\* together in the test file: neither its own import lines nor the lines of
\* a later candidate are inserted inside them.
C38_CandidateLinesContiguous ==
    (splice_out.done /\ splice_out.performed) =>
        (BlockContiguous /\ NextInsertOutside)

\* the same for insertion points inside the file with the imports line at
\* or above the tests line
C38_ContiguousWhenWellFormed ==
    (splice_out.done /\ splice_out.performed /\ WellFormedInsertionPoint) =>
        (BlockContiguous /\ NextInsertOutside)

\* ------------------------------------------------------------------------
\* The initial analysis
\* ------------------------------------------------------------------------

\* the answers to the two questions that the call accepts, among the first
\* allowed_attempts answers
AcceptedIndents ==
    {i \in 1..Min(allowed_attempts, Len(suite_analysis.indent_responses)) :
        suite_analysis.indent_responses[i] # None}

AcceptedLines ==
    {i \in 1..Min(allowed_attempts, Len(suite_analysis.line_responses)) :
        suite_analysis.line_responses[i].tests \notin {None, 0}}

\* what the call has done once it is over
AnalysisOutcome ==
    suite_analysis.done =>
        /\ suite_analysis.asked[1] \in 1..allowed_attempts
        /\ suite_analysis.asked[2] \in 0..allowed_attempts
        /\ suite_analysis.raised <=> (AcceptedIndents = {} \/ AcceptedLines = {})
        /\ ~suite_analysis.raised =>
              /\ phase = "analysed"
              /\ test_headers_indentation # None
              /\ test_headers_indentation =
                    suite_analysis.indent_responses[suite_analysis.asked[1]]
              /\ relevant_line_number_to_insert_tests_after \notin {None, 0}
              /\ relevant_line_number_to_insert_tests_after =
                    suite_analysis.line_responses[suite_analysis.asked[2]].tests
              /\ relevant_line_number_to_insert_imports_after =
                    suite_analysis.line_responses[suite_analysis.asked[2]].imports
        /\ suite_analysis.raised =>
              /\ phase = "constructed"
              /\ test_headers_indentation = None
              /\ relevant_line_number_to_insert_tests_after = None
              /\ relevant_line_number_to_insert_imports_after = None

\* C39: initial_test_suite_analysis asks at most 3 times for the header
\* indentation and at most 3 times for the insertion line and then ends; it
\* returns only with an indentation that is not None (0 is accepted) and a
\* truthy test_insert_line (0 and a missing one are refused), and when it
\* raises none of the three fields of the insertion point was assigned.
C39_AnalysisBoundedAndGuarded ==
    /\ []AnalysisOutcome
    /\ <>suite_analysis.done

\* an indentation of 0 accepted at the first answer, the insertion line at
\* the third after 0 and a missing one were refused
C39_Witness ==
    /\ suite_analysis.done /\ ~suite_analysis.raised
    /\ suite_analysis.asked = <<1, 3>>
    /\ test_headers_indentation = 0
    /\ suite_analysis.line_responses[1].tests = 0
    /\ suite_analysis.line_responses[2].tests = None

\* three refused answers to the insertion-line question: the call raises
C39_WitnessRaised ==
    /\ suite_analysis.done /\ suite_analysis.raised
    /\ suite_analysis.asked = <<2, 3>>
    /\ suite_analysis.indent_responses[2] = 0

====
